---- MODULE Spec2Model ----
(***************************************************************************)
(* A model of the rhash module of clump (src/unnamed/part_003, "rhash.c"): *)
(* a Robin-Hood open-addressing hash set/map with iterative rehashing      *)
(* between a low and a high table, and its key iterator.                   *)
(*                                                                         *)
(* The model is of the default build (NDEBUG not defined): the edit        *)
(* version n_edit exists and a failing assert() ends the program, which    *)
(* the model records in `failed`; no operation runs after that.            *)
(*                                                                         *)
(* Keys and values are caller-owned pointers.  A pointer is a positive     *)
(* number, NULL is 0, and Mem gives the bytes a key pointer points to.     *)
(*                                                                         *)
(* The source fixes the table orders at 6..31 (64..2^31 slots).  The model *)
(* keeps every formula of the source but scales the two orders down to     *)
(* MinOrder..MaxOrder so that expand, migrate, shrink and the behaviour at *)
(* the maximum order happen within a handful of keys.                      *)
(***************************************************************************)
EXTENDS Integers, Sequences, FiniteSets, TLC

\* ---------------------------------------------------------------- bounds
\* Scaled table orders (the source: 6 and 31).
MinOrder == 2
MaxOrder == 4
\* Number of key objects of KeyMem the callers of Spec use.
NKeys == 5
\* The same for SpecIter, for SpecFill and for SpecGrow.
NIterKeys == 4
NFillKeys == 13
NGrowKeys == 7
\* The edit version at which the callers of Spec stop mutating (the counter
\* is a uint32 in the source and never stops).
MaxEdit == 5
\* The same for SpecIter, for SpecFill and for SpecGrow.
MaxIterEdit == 4
MaxFillEdit == 13
MaxGrowEdit == 10
\* The same for SpecWidth.
MaxWidthEdit == 4
\* SpecFull: the number of key objects and the last edit version.
NFullKeys == 17
MaxFullEdit == 17
\* SpecList: the blocks of the node pool, the item pointers of the callers,
\* and the number of next() calls on one iterator.
MaxNodes == 3
NItems == 3
MaxSeen == 6
\* SpecHash: the number of entries at which its callers stop putting.
MaxHashEntries == 4
\* SpecTable: the key pointers given to one probe table.
NTableKeys == 6

NULL == 0

\* ---------------------------------------------------------------- uint32
\* A uint32 that can leave the range of the model checker's integers (a hash
\* code, the slot of an iterator) is a pair <<high, low>> of 16-bit halves:
\* the value high * 2^16 + low, with arithmetic modulo 2^32.  The counters
\* n_entries, n_peek and n_edit stay far below 2^32 here and are integers.
U16 == 2 ^ 16

W32(n) == <<(n \div U16) % U16, n % U16>>

Add32(a, b) ==
  LET lo == a[2] + b[2]
  IN <<(a[1] + b[1] + (lo \div U16)) % U16, lo % U16>>

\* a - 1 modulo 2^32
Dec32(a) ==
  IF a[2] > 0 THEN <<a[1], a[2] - 1>>
  ELSE IF a[1] > 0 THEN <<a[1] - 1, U16 - 1>> ELSE <<U16 - 1, U16 - 1>>

\* a << 5 modulo 2^32
Shl5(a) ==
  LET lo == a[2] * 32
  IN <<(a[1] * 32 + (lo \div U16)) % U16, lo % U16>>

\* a & (2^order - 1), for order <= 16
Mask32(a, order) == a[2] % (2 ^ order)

\* a >= n for an integer n < 2^16
GreaterEq32(a, n) == a[1] > 0 \/ a[2] >= n

\* ------------------------------------------------------ caller-owned data
\* The bytes behind each key pointer, zero-terminated.  Pointers 1 and 5
\* hold the same string; 1, 2 and 3 share their ideal slot in a table of
\* four slots, 1 and 3 also in a table of eight; 7 differs from 1 only
\* after its first byte.
KeyMem ==
  << <<1, 0>>, <<5, 0>>, <<9, 0>>, <<2, 0>>, <<1, 0>>, <<3, 0>>, <<1, 4, 0>>,
     <<4, 0>>, <<6, 0>>, <<7, 0>>, <<8, 0>>, <<10, 0>>, <<11, 0>>, <<12, 0>>,
     <<13, 0>>, <<14, 0>>, <<15, 0>>, <<16, 0>>, <<17, 0>>, <<18, 0>> >>

Mem(key) == KeyMem[key]

Keys == 1..NKeys
\* SpecIter: pointers with pairwise different strings.
IterKeys == 1..NIterKeys
\* SpecFill: pointers with pairwise different strings.
FillKeys == (1..(NFillKeys + 1)) \ {5}
\* SpecFull: pointers with pairwise different strings.
FullKeys == (1..(NFullKeys + 1)) \ {5}
\* Value pointers of a map.
Values == {1, 2}
\* The callers of SpecIter map each key to one value of its own.
IterValueOf(key) == 1 + (key % 2)

\* ----------------------------------------------------------- probe table
CL_HASH_MIN_ORDER == MinOrder

CL_HASH_MAX_ORDER == MaxOrder

Pow2(n) == 2 ^ n

cl_rhash_table_size(tbl) == Pow2(tbl.order)

EmptyEntry == <<NULL, NULL>>

\* calloc / memset 0 of a table of the given order
ZeroTable(order) == [s \in 0..(Pow2(order) - 1) |-> EmptyEntry]

RECURSIVE hash_str_loop(_, _, _)
hash_str_loop(str, i, hash) ==
  IF str[i] = 0 THEN hash
  ELSE hash_str_loop(str, i + 1,
                     Add32(Add32(Shl5(hash), hash), W32(str[i])))

cl_rhash_table_hash_str(key) == hash_str_loop(Mem(key), 1, W32(5381))

RECURSIVE hash_fixed_loop(_, _, _, _)
hash_fixed_loop(ptr, i, key_bytes, hash) ==
  IF i > key_bytes THEN hash
  ELSE hash_fixed_loop(ptr, i + 1, key_bytes,
                       Add32(Add32(Shl5(hash), hash), W32(ptr[i])))

cl_rhash_table_hash_fixed(key, key_bytes) ==
  hash_fixed_loop(Mem(key), 1, key_bytes, W32(5381))

\* ent is an entry <<key, value>>; the hash reads the key it points to
cl_rhash_table_hash(tbl, ent) ==
  IF tbl.key_bytes # 0
  THEN cl_rhash_table_hash_fixed(ent[1], tbl.key_bytes)
  ELSE cl_rhash_table_hash_str(ent[1])

cl_rhash_table_slot(tbl, hcode, pr) ==
  Mask32(Add32(hcode, W32(pr)), tbl.order)

cl_rhash_table_cost_slot(tbl, slot, o_slot) ==
  IF slot >= o_slot THEN slot - o_slot
  ELSE cl_rhash_table_size(tbl) + slot - o_slot

cl_rhash_table_cost(tbl, slot) ==
  cl_rhash_table_cost_slot(tbl, slot,
    cl_rhash_table_slot(tbl, cl_rhash_table_hash(tbl, tbl.table[slot]), 0))

cl_rhash_table_init(key_bytes, n_bytes) ==
  [table |-> ZeroTable(CL_HASH_MIN_ORDER), n_entries |-> 0,
   n_peek |-> Pow2(CL_HASH_MIN_ORDER), n_bytes |-> n_bytes,
   order |-> CL_HASH_MIN_ORDER, key_bytes |-> key_bytes]

\* A clone that takes the storage and rewinds the scan cursor to slot 0.
cl_rhash_table_clone_rewinds(tbl, src) ==
  [table |-> src.table, n_entries |-> src.n_entries, n_peek |-> 0,
   n_bytes |-> src.n_bytes, order |-> src.order, key_bytes |-> src.key_bytes]

\* tbl takes over the storage and the fields of src
cl_rhash_table_clone(tbl, src) ==
  [table |-> src.table, n_entries |-> src.n_entries, n_peek |-> src.n_peek,
   n_bytes |-> src.n_bytes, order |-> src.order, key_bytes |-> src.key_bytes]

\* An update that leaves the scan cursor where it is.
cl_rhash_table_entry_update_never(tbl, slot) == tbl

cl_rhash_table_entry_update(tbl, slot) ==
  IF slot < tbl.n_peek THEN [tbl EXCEPT !.n_peek = slot] ELSE tbl

cl_rhash_table_clear(tbl) ==
  [tbl EXCEPT !.n_entries = 0, !.n_peek = cl_rhash_table_size(tbl),
              !.order = CL_HASH_MIN_ORDER,
              !.table = ZeroTable(CL_HASH_MIN_ORDER)]

\* A remove threshold that is a quarter of the size at every order.
cl_rhash_table_slimit_any_order(tbl) == cl_rhash_table_size(tbl) \div 4

cl_rhash_table_slimit(tbl) ==
  IF tbl.order > CL_HASH_MIN_ORDER THEN cl_rhash_table_size(tbl) \div 4 ELSE 0

cl_rhash_table_limit(tbl) ==
  LET n_size == cl_rhash_table_size(tbl) IN n_size - (n_size \div 4)

cl_rhash_table_entry_exists(ent) == ent[1] # NULL

\* memcpy of n_bytes: one word (the key) for a set, two for a map
cl_rhash_table_entry_copy(tbl, dst, src) ==
  IF tbl.n_bytes = 2 THEN src ELSE <<src[1], dst[2]>>

\* the first N bytes of the two keys
Prefix(s, n) == [i \in 1..n |-> s[i]]

\* the bytes of a string up to its terminator
RECURSIVE StrLen(_, _)
StrLen(s, i) == IF s[i] = 0 THEN i - 1 ELSE StrLen(s, i + 1)

Str(s) == Prefix(s, StrLen(s, 1))

\* A comparison of the two pointers instead of the bytes they point to.
cl_rhash_table_key_equals_pointers(tbl, key1, key2) == key1[1] = key2[1]

cl_rhash_table_key_equals(tbl, key1, key2) ==
  IF tbl.key_bytes # 0
  THEN Prefix(Mem(key1[1]), tbl.key_bytes) = Prefix(Mem(key2[1]), tbl.key_bytes)
  ELSE Str(Mem(key1[1])) = Str(Mem(key2[1]))

\* A scan that leaves the cursor one slot past the entry it found.
RECURSIVE peek_entry_loop_past(_, _)
peek_entry_loop_past(tbl, pr) ==
  IF pr >= cl_rhash_table_size(tbl) THEN [tbl |-> tbl, slot |-> -1]
  ELSE IF cl_rhash_table_entry_exists(tbl.table[pr])
       THEN [tbl |-> [tbl EXCEPT !.n_peek = pr + 1], slot |-> pr]
       ELSE peek_entry_loop_past(tbl, pr + 1)

\* The slot of the first entry at or after n_peek, or -1 (NULL).
RECURSIVE peek_entry_loop(_, _)
peek_entry_loop(tbl, pr) ==
  IF pr >= cl_rhash_table_size(tbl) THEN [tbl |-> tbl, slot |-> -1]
  ELSE IF cl_rhash_table_entry_exists(tbl.table[pr])
       THEN [tbl |-> [tbl EXCEPT !.n_peek = pr], slot |-> pr]
       ELSE peek_entry_loop(tbl, pr + 1)

cl_rhash_table_peek_entry(tbl) == peek_entry_loop(tbl, tbl.n_peek)

cl_rhash_table_peek(tbl) ==
  IF tbl.n_entries > 0 THEN cl_rhash_table_peek_entry(tbl)
  ELSE [tbl |-> tbl, slot |-> -1]

\* A lookup that gives up one probe too early: at a resident whose cost
\* equals the probe length.
RECURSIVE table_entry_loop_early_exit(_, _, _, _)
table_entry_loop_early_exit(tbl, key, hcode, pr) ==
  IF pr >= cl_rhash_table_size(tbl) THEN -1
  ELSE LET slot == cl_rhash_table_slot(tbl, hcode, pr)
           e == tbl.table[slot]
       IN IF ~cl_rhash_table_entry_exists(e) THEN -1
          ELSE IF cl_rhash_table_key_equals(tbl, key, e) THEN slot
          ELSE IF pr >= cl_rhash_table_cost(tbl, slot) THEN -1
          ELSE table_entry_loop_early_exit(tbl, key, hcode, pr + 1)

\* The slot holding the key, or -1 (NULL).
RECURSIVE table_entry_loop(_, _, _, _)
table_entry_loop(tbl, key, hcode, pr) ==
  IF pr >= cl_rhash_table_size(tbl) THEN -1
  ELSE LET slot == cl_rhash_table_slot(tbl, hcode, pr)
           e == tbl.table[slot]
       IN IF ~cl_rhash_table_entry_exists(e) THEN -1
          ELSE IF cl_rhash_table_key_equals(tbl, key, e) THEN slot
          ELSE IF pr > cl_rhash_table_cost(tbl, slot) THEN -1
          ELSE table_entry_loop(tbl, key, hcode, pr + 1)

cl_rhash_table_entry(tbl, key) ==
  table_entry_loop(tbl, key, cl_rhash_table_hash(tbl, key), 0)

cl_rhash_table_contains(tbl, key) ==
  cl_rhash_table_entry(tbl, <<key, NULL>>) # -1

RECURSIVE find_empty_loop(_, _, _)
find_empty_loop(tbl, hcode, pr) ==
  IF pr >= cl_rhash_table_size(tbl) THEN 0
  ELSE IF ~cl_rhash_table_entry_exists(
             tbl.table[cl_rhash_table_slot(tbl, hcode, pr)])
       THEN pr
       ELSE find_empty_loop(tbl, hcode, pr + 1)

cl_rhash_table_find_empty(tbl, hcode, ipr) == find_empty_loop(tbl, hcode, ipr)

\* A forward shift that stops one entry short of the start slot.
RECURSIVE shift_forward_loop_short(_, _, _, _, _)
shift_forward_loop_short(tbl, hcode, ipr, pr, p_slot) ==
  IF pr <= ipr THEN tbl
  ELSE LET slot == cl_rhash_table_slot(tbl, hcode, pr)
           t1 == IF p_slot # -1
                 THEN [tbl EXCEPT !.table[p_slot] =
                         cl_rhash_table_entry_copy(tbl, @, tbl.table[slot])]
                 ELSE tbl
       IN shift_forward_loop_short(cl_rhash_table_entry_update(t1, slot),
                                   hcode, ipr, pr - 1, slot)

\* p_slot is the slot of p_ent, or -1 while p_ent is NULL
RECURSIVE shift_forward_loop(_, _, _, _, _)
shift_forward_loop(tbl, hcode, ipr, pr, p_slot) ==
  IF pr < ipr THEN tbl
  ELSE LET slot == cl_rhash_table_slot(tbl, hcode, pr)
           t1 == IF p_slot # -1
                 THEN [tbl EXCEPT !.table[p_slot] =
                         cl_rhash_table_entry_copy(tbl, @, tbl.table[slot])]
                 ELSE tbl
       IN shift_forward_loop(cl_rhash_table_entry_update(t1, slot),
                             hcode, ipr, pr - 1, slot)

cl_rhash_table_shift_forward(tbl, hcode, ipr) ==
  shift_forward_loop(tbl, hcode, ipr,
                     cl_rhash_table_find_empty(tbl, hcode, ipr), -1)

\* An insert that, on finding an equal key, returns the key it was given
\* instead of the key that was stored.
RECURSIVE table_insert_loop_returns_new(_, _, _, _)
table_insert_loop_returns_new(tbl, ent, hcode, pr) ==
  IF pr >= cl_rhash_table_size(tbl)
  THEN [tbl |-> tbl, key |-> NULL, failed |-> "insert: assert(false)"]
  ELSE
    LET slot == cl_rhash_table_slot(tbl, hcode, pr)
        e == tbl.table[slot]
    IN IF ~cl_rhash_table_entry_exists(e)
       THEN [tbl |-> cl_rhash_table_entry_update(
                       [tbl EXCEPT !.table[slot] =
                                     cl_rhash_table_entry_copy(tbl, @, ent),
                                   !.n_entries = @ + 1], slot),
             key |-> NULL, failed |-> ""]
       ELSE IF cl_rhash_table_key_equals(tbl, ent, e)
       THEN [tbl |-> cl_rhash_table_entry_update(
                       [tbl EXCEPT !.table[slot] =
                                     cl_rhash_table_entry_copy(tbl, @, ent)],
                       slot),
             key |-> ent[1], failed |-> ""]
       ELSE IF pr > cl_rhash_table_cost(tbl, slot)
       THEN LET t1 == cl_rhash_table_shift_forward(tbl, hcode, pr)
            IN [tbl |-> cl_rhash_table_entry_update(
                          [t1 EXCEPT !.table[slot] =
                                       cl_rhash_table_entry_copy(t1, @, ent),
                                     !.n_entries = @ + 1], slot),
                key |-> NULL, failed |-> ""]
       ELSE table_insert_loop_returns_new(tbl, ent, hcode, pr + 1)

\* An insert by plain linear probing: it never displaces a resident.
RECURSIVE table_insert_loop_no_displace(_, _, _, _)
table_insert_loop_no_displace(tbl, ent, hcode, pr) ==
  IF pr >= cl_rhash_table_size(tbl)
  THEN [tbl |-> tbl, key |-> NULL, failed |-> "insert: assert(false)"]
  ELSE
    LET slot == cl_rhash_table_slot(tbl, hcode, pr)
        e == tbl.table[slot]
    IN IF ~cl_rhash_table_entry_exists(e)
       THEN [tbl |-> cl_rhash_table_entry_update(
                       [tbl EXCEPT !.table[slot] =
                                     cl_rhash_table_entry_copy(tbl, @, ent),
                                   !.n_entries = @ + 1], slot),
             key |-> NULL, failed |-> ""]
       ELSE IF cl_rhash_table_key_equals(tbl, ent, e)
       THEN [tbl |-> cl_rhash_table_entry_update(
                       [tbl EXCEPT !.table[slot] =
                                     cl_rhash_table_entry_copy(tbl, @, ent)],
                       slot),
             key |-> e[1], failed |-> ""]
       ELSE table_insert_loop_no_displace(tbl, ent, hcode, pr + 1)

\* The result: the table, the previous equal key (or NULL) and the assert
\* that failed, if one did.
RECURSIVE table_insert_loop(_, _, _, _)
table_insert_loop(tbl, ent, hcode, pr) ==
  IF pr >= cl_rhash_table_size(tbl)
  THEN [tbl |-> tbl, key |-> NULL, failed |-> "insert: assert(false)"]
  ELSE
    LET slot == cl_rhash_table_slot(tbl, hcode, pr)
        e == tbl.table[slot]
    IN IF ~cl_rhash_table_entry_exists(e)
       THEN [tbl |-> cl_rhash_table_entry_update(
                       [tbl EXCEPT !.table[slot] =
                                     cl_rhash_table_entry_copy(tbl, @, ent),
                                   !.n_entries = @ + 1], slot),
             key |-> NULL, failed |-> ""]
       ELSE IF cl_rhash_table_key_equals(tbl, ent, e)
       THEN [tbl |-> cl_rhash_table_entry_update(
                       [tbl EXCEPT !.table[slot] =
                                     cl_rhash_table_entry_copy(tbl, @, ent)],
                       slot),
             key |-> e[1], failed |-> ""]
       ELSE IF pr > cl_rhash_table_cost(tbl, slot)
       THEN LET t1 == cl_rhash_table_shift_forward(tbl, hcode, pr)
            IN [tbl |-> cl_rhash_table_entry_update(
                          [t1 EXCEPT !.table[slot] =
                                       cl_rhash_table_entry_copy(t1, @, ent),
                                     !.n_entries = @ + 1], slot),
                key |-> NULL, failed |-> ""]
       ELSE table_insert_loop(tbl, ent, hcode, pr + 1)

cl_rhash_table_insert(tbl, ent) ==
  IF ~(tbl.n_entries < cl_rhash_table_size(tbl))
  THEN [tbl |-> tbl, key |-> NULL,
        failed |-> "insert: assert(n_entries < n_size)"]
  ELSE table_insert_loop(tbl, ent, cl_rhash_table_hash(tbl, ent), 0)

\* A removal that empties the slot and shifts nothing back.
shift_backward_loop_no_shift(tbl, e_slot, hcode, pr) ==
  [tbl EXCEPT !.table[e_slot] =
     IF tbl.n_bytes = 2 THEN EmptyEntry ELSE <<NULL, @[2]>>]

\* A backward shift that also moves back an entry that is in its ideal slot.
RECURSIVE shift_backward_loop_past_zero(_, _, _, _)
shift_backward_loop_past_zero(tbl, e_slot, hcode, pr) ==
  LET slot == cl_rhash_table_slot(tbl, hcode, pr)
      zeroed == [tbl EXCEPT !.table[e_slot] =
                   IF tbl.n_bytes = 2 THEN EmptyEntry ELSE <<NULL, @[2]>>]
  IN IF pr >= cl_rhash_table_size(tbl) THEN zeroed
     ELSE IF ~cl_rhash_table_entry_exists(tbl.table[slot]) THEN zeroed
     ELSE shift_backward_loop_past_zero(
            [tbl EXCEPT !.table[e_slot] =
               cl_rhash_table_entry_copy(tbl, @, tbl.table[slot])],
            slot, hcode, pr + 1)

\* e_slot is the slot ent points to; hcode is the hash of the removed entry
RECURSIVE shift_backward_loop(_, _, _, _)
shift_backward_loop(tbl, e_slot, hcode, pr) ==
  LET slot == cl_rhash_table_slot(tbl, hcode, pr)
      zeroed == [tbl EXCEPT !.table[e_slot] =
                   IF tbl.n_bytes = 2 THEN EmptyEntry ELSE <<NULL, @[2]>>]
  IN IF pr >= cl_rhash_table_size(tbl) THEN zeroed
     ELSE IF ~cl_rhash_table_entry_exists(tbl.table[slot]) THEN zeroed
     ELSE IF cl_rhash_table_cost(tbl, slot) = 0 THEN zeroed
     ELSE shift_backward_loop(
            [tbl EXCEPT !.table[e_slot] =
               cl_rhash_table_entry_copy(tbl, @, tbl.table[slot])],
            slot, hcode, pr + 1)

cl_rhash_table_shift_backward(tbl, e_slot, ipr) ==
  shift_backward_loop(tbl, e_slot,
                      cl_rhash_table_hash(tbl, tbl.table[e_slot]), ipr + 1)

\* A remove that forgets to count the entry down.
RECURSIVE table_remove_loop_no_count(_, _, _, _)
table_remove_loop_no_count(tbl, ent, hcode, pr) ==
  IF pr >= cl_rhash_table_size(tbl) THEN [tbl |-> tbl, key |-> NULL]
  ELSE
    LET slot == cl_rhash_table_slot(tbl, hcode, pr)
        e == tbl.table[slot]
    IN IF ~cl_rhash_table_entry_exists(e) THEN [tbl |-> tbl, key |-> NULL]
       ELSE IF cl_rhash_table_key_equals(tbl, ent, e)
       THEN [tbl |-> cl_rhash_table_entry_update(
                       cl_rhash_table_shift_backward(tbl, slot, pr), slot),
             key |-> e[1]]
       ELSE table_remove_loop_no_count(tbl, ent, hcode, pr + 1)

\* The result: the table and the removed key (or NULL).
RECURSIVE table_remove_loop(_, _, _, _)
table_remove_loop(tbl, ent, hcode, pr) ==
  IF pr >= cl_rhash_table_size(tbl) THEN [tbl |-> tbl, key |-> NULL]
  ELSE
    LET slot == cl_rhash_table_slot(tbl, hcode, pr)
        e == tbl.table[slot]
    IN IF ~cl_rhash_table_entry_exists(e) THEN [tbl |-> tbl, key |-> NULL]
       ELSE IF cl_rhash_table_key_equals(tbl, ent, e)
       THEN [tbl |-> cl_rhash_table_entry_update(
                       cl_rhash_table_shift_backward(
                         [tbl EXCEPT !.n_entries = @ - 1], slot, pr),
                       slot),
             key |-> e[1]]
       ELSE table_remove_loop(tbl, ent, hcode, pr + 1)

cl_rhash_table_remove(tbl, ent) ==
  IF tbl.n_entries = 0 THEN [tbl |-> tbl, key |-> NULL]
  ELSE table_remove_loop(tbl, ent, cl_rhash_table_hash(tbl, ent), 0)

\* ------------------------------------------------------- dual-table hash
\* struct cl_rhash, without the iterator pool (see `it`)
cl_rhash_create(key_bytes, is_map) ==
  LET n_bytes == IF is_map THEN 2 ELSE 1
  IN [h_lo |-> cl_rhash_table_init(key_bytes, n_bytes),
      h_hi |-> cl_rhash_table_init(key_bytes, n_bytes),
      is_map |-> is_map, n_edit |-> 0]

cl_rhash_is_map(hash) == hash.is_map

cl_rhash_edit(hash) == [hash EXCEPT !.n_edit = @ + 1]

cl_rhash_count(hash) == hash.h_lo.n_entries + hash.h_hi.n_entries

cl_rhash_contains(hash, key) ==
  cl_rhash_table_contains(hash.h_lo, key) \/
  cl_rhash_table_contains(hash.h_hi, key)

\* A peek that counts as an edit of the hash.
cl_rhash_peek_edits(hash) ==
  LET l == cl_rhash_table_peek(hash.h_lo)
      h == cl_rhash_table_peek(hash.h_hi)
  IN IF l.slot # -1
     THEN [hash |-> cl_rhash_edit([hash EXCEPT !.h_lo = l.tbl]),
           key |-> l.tbl.table[l.slot][1]]
     ELSE [hash |-> cl_rhash_edit([hash EXCEPT !.h_lo = l.tbl, !.h_hi = h.tbl]),
           key |-> IF h.slot # -1 THEN h.tbl.table[h.slot][1] ELSE NULL]

\* The result: the hash (a scan cursor may have moved) and the key or NULL.
cl_rhash_peek(hash) ==
  LET l == cl_rhash_table_peek(hash.h_lo)
      h == cl_rhash_table_peek(hash.h_hi)
  IN IF l.slot # -1
     THEN [hash |-> [hash EXCEPT !.h_lo = l.tbl], key |-> l.tbl.table[l.slot][1]]
     ELSE IF h.slot # -1
     THEN [hash |-> [hash EXCEPT !.h_lo = l.tbl, !.h_hi = h.tbl],
           key |-> h.tbl.table[h.slot][1]]
     ELSE [hash |-> [hash EXCEPT !.h_lo = l.tbl, !.h_hi = h.tbl], key |-> NULL]

cl_rhash_get(hash, key) ==
  IF ~cl_rhash_is_map(hash) THEN NULL
  ELSE LET l == cl_rhash_table_entry(hash.h_lo, <<key, NULL>>)
           h == cl_rhash_table_entry(hash.h_hi, <<key, NULL>>)
       IN IF l # -1 THEN hash.h_lo.table[l][2]
          ELSE IF h # -1 THEN hash.h_hi.table[h][2]
          ELSE NULL

\* A move-up test that counts each entry of the low table once, not twice.
cl_rhash_should_move_higher_late(hash) ==
  LET n_lo == hash.h_lo.n_entries
      n_hi == hash.h_hi.n_entries
      n_thresh == cl_rhash_table_limit(hash.h_hi)
  IN (n_lo > 0) /\ (n_hi >= n_thresh - n_lo)

cl_rhash_should_move_higher(hash) ==
  LET n_lo == hash.h_lo.n_entries
      n_hi == hash.h_hi.n_entries
      n_thresh == cl_rhash_table_limit(hash.h_hi)
  IN (n_lo > 0) /\ (n_hi >= n_thresh - n_lo * 2)

\* The result: the hash and the assert that failed, if one did.
cl_rhash_move_higher(hash) ==
  LET p == cl_rhash_table_peek(hash.h_lo)
  IN IF p.slot = -1 THEN [hash |-> [hash EXCEPT !.h_lo = p.tbl], failed |-> ""]
     ELSE LET tent == cl_rhash_table_entry_copy(p.tbl, EmptyEntry,
                                                p.tbl.table[p.slot])
              r == cl_rhash_table_remove(p.tbl, p.tbl.table[p.slot])
              i == cl_rhash_table_insert(hash.h_hi, tent)
          IN IF r.key = NULL
             THEN [hash |-> [hash EXCEPT !.h_lo = r.tbl], failed |-> ""]
             ELSE [hash |-> [hash EXCEPT !.h_lo = r.tbl, !.h_hi = i.tbl],
                   failed |-> i.failed]

\* A check that moves a second entry when the first move leaves one due.
cl_rhash_check_move_higher_twice(hash) ==
  IF cl_rhash_should_move_higher(hash)
  THEN LET a == cl_rhash_move_higher(hash)
       IN IF a.failed = "" /\ cl_rhash_should_move_higher(a.hash)
          THEN cl_rhash_move_higher(a.hash) ELSE a
  ELSE [hash |-> hash, failed |-> ""]

cl_rhash_check_move_higher(hash) ==
  IF cl_rhash_should_move_higher(hash) THEN cl_rhash_move_higher(hash)
  ELSE [hash |-> hash, failed |-> ""]

\* An expand one entry before the high table is at its limit.
cl_rhash_should_expand_early(hash) ==
  (hash.h_hi.order < CL_HASH_MAX_ORDER) /\
  (hash.h_lo.n_entries = 0) /\
  (hash.h_hi.n_entries + 1 >= cl_rhash_table_limit(hash.h_hi))

\* An expand that waits until the high table is past its limit.
cl_rhash_should_expand_above(hash) ==
  (hash.h_hi.order < CL_HASH_MAX_ORDER) /\
  (hash.h_lo.n_entries = 0) /\
  (hash.h_hi.n_entries > cl_rhash_table_limit(hash.h_hi))

cl_rhash_should_expand(hash) ==
  (hash.h_hi.order < CL_HASH_MAX_ORDER) /\
  (hash.h_lo.n_entries = 0) /\
  (hash.h_hi.n_entries >= cl_rhash_table_limit(hash.h_hi))

\* An expand that gives the new high table the order of the old one.
cl_rhash_expand_same_order(hash) ==
  LET lo == cl_rhash_table_clone(hash.h_lo, hash.h_hi)
      order == hash.h_hi.order
  IN [hash EXCEPT !.h_lo = lo,
                  !.h_hi = [@ EXCEPT !.order = order, !.n_entries = 0,
                                     !.n_peek = Pow2(order),
                                     !.table = ZeroTable(order)]]

cl_rhash_expand(hash) ==
  LET lo == cl_rhash_table_clone(hash.h_lo, hash.h_hi)
      order == hash.h_hi.order + 1
  IN [hash EXCEPT !.h_lo = lo,
                  !.h_hi = [@ EXCEPT !.order = order, !.n_entries = 0,
                                     !.n_peek = Pow2(order),
                                     !.table = ZeroTable(order)]]

cl_rhash_check_expand(hash) ==
  IF cl_rhash_should_expand(hash) THEN cl_rhash_expand(hash) ELSE hash

\* An insert that leaves the copy of the key in the low table.
cl_rhash_insert_keep_shadow(hash, ent) ==
  LET i == cl_rhash_table_insert(hash.h_hi, ent)
      h1 == [hash EXCEPT !.h_hi = i.tbl]
      m == cl_rhash_check_move_higher(h1)
      moved == IF cl_rhash_should_move_higher(h1) THEN {"move_higher"} ELSE {}
      grown == IF cl_rhash_should_expand(m.hash) THEN {"expand"} ELSE {}
  IN IF i.failed # ""
     THEN [hash |-> hash, key |-> NULL, failed |-> i.failed, steps |-> {}]
     ELSE IF i.key # NULL
     THEN [hash |-> cl_rhash_edit(h1), key |-> i.key, failed |-> "",
           steps |-> {}]
     ELSE IF m.failed # ""
     THEN [hash |-> hash, key |-> NULL, failed |-> m.failed, steps |-> moved]
     ELSE [hash |-> cl_rhash_edit(cl_rhash_check_expand(m.hash)),
           key |-> NULL, failed |-> "", steps |-> moved \cup grown]

\* The result: the hash, the key stored before (or NULL), the assert that
\* failed, if one did (the program ends there and the hash is of no use),
\* and the steps the call took among "evict_lo", "move_higher", "expand".
\* An insert that returns NULL when it found the key in the low table only.
cl_rhash_insert_forgets_low_key(hash, ent) ==
  LET i == cl_rhash_table_insert(hash.h_hi, ent)
      h1 == [hash EXCEPT !.h_hi = i.tbl]
      r == cl_rhash_table_remove(h1.h_lo, ent)
      h2 == [h1 EXCEPT !.h_lo = r.tbl]
      m == cl_rhash_check_move_higher(h2)
      moved == IF cl_rhash_should_move_higher(h2) THEN {"move_higher"} ELSE {}
      grown == IF cl_rhash_should_expand(m.hash) THEN {"expand"} ELSE {}
  IN IF i.failed # ""
     THEN [hash |-> hash, key |-> NULL, failed |-> i.failed, steps |-> {}]
     ELSE IF i.key # NULL
     THEN [hash |-> cl_rhash_edit(h1), key |-> i.key, failed |-> "",
           steps |-> {}]
     ELSE IF r.key # NULL
     THEN [hash |-> cl_rhash_edit(h2), key |-> NULL, failed |-> "",
           steps |-> {"evict_lo"}]
     ELSE IF m.failed # ""
     THEN [hash |-> hash, key |-> NULL, failed |-> m.failed, steps |-> moved]
     ELSE [hash |-> cl_rhash_edit(cl_rhash_check_expand(m.hash)),
           key |-> NULL, failed |-> "", steps |-> moved \cup grown]

cl_rhash_insert(hash, ent) ==
  LET i == cl_rhash_table_insert(hash.h_hi, ent)
      h1 == [hash EXCEPT !.h_hi = i.tbl]
      r == cl_rhash_table_remove(h1.h_lo, ent)
      h2 == [h1 EXCEPT !.h_lo = r.tbl]
      m == cl_rhash_check_move_higher(h2)
      moved == IF cl_rhash_should_move_higher(h2) THEN {"move_higher"} ELSE {}
      grown == IF cl_rhash_should_expand(m.hash) THEN {"expand"} ELSE {}
  IN IF i.failed # ""
     THEN [hash |-> hash, key |-> NULL, failed |-> i.failed, steps |-> {}]
     ELSE IF i.key # NULL
     THEN [hash |-> cl_rhash_edit(h1), key |-> i.key, failed |-> "",
           steps |-> {}]
     ELSE IF r.key # NULL
     THEN [hash |-> cl_rhash_edit(h2), key |-> r.key, failed |-> "",
           steps |-> {"evict_lo"}]
     ELSE IF m.failed # ""
     THEN [hash |-> hash, key |-> NULL, failed |-> m.failed, steps |-> moved]
     ELSE [hash |-> cl_rhash_edit(cl_rhash_check_expand(m.hash)),
           key |-> NULL, failed |-> "", steps |-> moved \cup grown]

\* cl_rhash_add without the test of the mode: it inserts into a map too.
cl_rhash_add_any_mode(hash, key) == cl_rhash_insert(hash, <<key, NULL>>)

cl_rhash_add(hash, key) ==
  IF cl_rhash_is_map(hash)
  THEN [hash |-> hash, key |-> key, failed |-> "", steps |-> {}]
  ELSE cl_rhash_insert(hash, <<key, NULL>>)

cl_rhash_put(hash, key, value) ==
  IF ~cl_rhash_is_map(hash)
  THEN [hash |-> hash, key |-> NULL, failed |-> "", steps |-> {}]
  ELSE cl_rhash_insert(hash, <<key, value>>)

\* A move-down test that looks at how full the high table is.
cl_rhash_should_move_lower_if_full(hash) ==
  LET n_hi == hash.h_hi.n_entries
      n_thresh == cl_rhash_table_slimit(hash.h_hi)
  IN (n_thresh > 0) /\ (n_hi > n_thresh)

cl_rhash_should_move_lower(hash) ==
  LET n_hi == hash.h_hi.n_entries
      n_thresh == cl_rhash_table_slimit(hash.h_hi)
  IN (n_hi > 0) /\ (n_thresh > 0)

cl_rhash_move_lower(hash) ==
  LET p == cl_rhash_table_peek(hash.h_hi)
  IN IF p.slot = -1 THEN [hash |-> [hash EXCEPT !.h_hi = p.tbl], failed |-> ""]
     ELSE LET tent == cl_rhash_table_entry_copy(p.tbl, EmptyEntry,
                                                p.tbl.table[p.slot])
              r == cl_rhash_table_remove(p.tbl, p.tbl.table[p.slot])
              i == cl_rhash_table_insert(hash.h_lo, tent)
          IN IF r.key = NULL
             THEN [hash |-> [hash EXCEPT !.h_hi = r.tbl], failed |-> ""]
             ELSE [hash |-> [hash EXCEPT !.h_hi = r.tbl, !.h_lo = i.tbl],
                   failed |-> i.failed]

cl_rhash_check_move_lower(hash) ==
  IF cl_rhash_should_move_lower(hash) THEN cl_rhash_move_lower(hash)
  ELSE [hash |-> hash, failed |-> ""]

\* A shrink that waits until the low table is below the remove threshold.
cl_rhash_should_shrink_below(hash) ==
  (hash.h_hi.order > CL_HASH_MIN_ORDER) /\
  (hash.h_hi.n_entries = 0) /\
  (hash.h_lo.n_entries < cl_rhash_table_slimit(hash.h_hi))

cl_rhash_should_shrink(hash) ==
  (hash.h_hi.order > CL_HASH_MIN_ORDER) /\
  (hash.h_hi.n_entries = 0) /\
  (hash.h_lo.n_entries <= cl_rhash_table_slimit(hash.h_hi))

cl_rhash_shrink(hash) ==
  LET hi == cl_rhash_table_clone(hash.h_hi, hash.h_lo)
      order == hash.h_lo.order - 1
  IN [hash EXCEPT !.h_hi = hi,
                  !.h_lo = [@ EXCEPT !.order = order, !.n_entries = 0,
                                     !.n_peek = Pow2(order),
                                     !.table = ZeroTable(order)]]

cl_rhash_check_shrink(hash) ==
  IF cl_rhash_should_shrink(hash) THEN cl_rhash_shrink(hash) ELSE hash

\* A remove that bumps the edit version also when it finds nothing.
cl_rhash_remove_always_edit(hash, key) ==
  LET tent == <<key, NULL>>
      l == cl_rhash_table_remove(hash.h_lo, tent)
      h == cl_rhash_table_remove(hash.h_hi, tent)
      h1 == IF l.key # NULL THEN [hash EXCEPT !.h_lo = l.tbl]
            ELSE [hash EXCEPT !.h_lo = l.tbl, !.h_hi = h.tbl]
      pkey == IF l.key # NULL THEN l.key ELSE h.key
      m == cl_rhash_check_move_lower(h1)
      moved == IF cl_rhash_should_move_lower(h1) THEN {"move_lower"} ELSE {}
      shrunk == IF cl_rhash_should_shrink(m.hash) THEN {"shrink"} ELSE {}
  IN IF pkey = NULL
     THEN [hash |-> cl_rhash_edit(h1), key |-> NULL, failed |-> "",
           steps |-> {}]
     ELSE IF m.failed # ""
     THEN [hash |-> hash, key |-> NULL, failed |-> m.failed, steps |-> moved]
     ELSE [hash |-> cl_rhash_edit(cl_rhash_check_shrink(m.hash)),
           key |-> pkey, failed |-> "", steps |-> moved \cup shrunk]

\* The result: the hash, the removed key (or NULL), the assert that failed,
\* if one did, and the steps the call took among "move_lower", "shrink".
cl_rhash_remove(hash, key) ==
  LET tent == <<key, NULL>>
      l == cl_rhash_table_remove(hash.h_lo, tent)
      h == cl_rhash_table_remove(hash.h_hi, tent)
      h1 == IF l.key # NULL THEN [hash EXCEPT !.h_lo = l.tbl]
            ELSE [hash EXCEPT !.h_lo = l.tbl, !.h_hi = h.tbl]
      pkey == IF l.key # NULL THEN l.key ELSE h.key
      m == cl_rhash_check_move_lower(h1)
      moved == IF cl_rhash_should_move_lower(h1) THEN {"move_lower"} ELSE {}
      shrunk == IF cl_rhash_should_shrink(m.hash) THEN {"shrink"} ELSE {}
  IN IF pkey = NULL
     THEN [hash |-> h1, key |-> NULL, failed |-> "", steps |-> {}]
     ELSE IF m.failed # ""
     THEN [hash |-> hash, key |-> NULL, failed |-> m.failed, steps |-> moved]
     ELSE [hash |-> cl_rhash_edit(cl_rhash_check_shrink(m.hash)),
           key |-> pkey, failed |-> "", steps |-> moved \cup shrunk]

cl_rhash_clear(hash) ==
  cl_rhash_edit([hash EXCEPT !.h_lo = cl_rhash_table_clear(@),
                             !.h_hi = cl_rhash_table_clear(@)])

\* --------------------------------------------------------------- iterator
CL_RHASH_TABLE_LO == 0

CL_RHASH_TABLE_HI == 1

CL_RHASH_TABLE_NONE == 2

\* An iterator seeded at the scan cursor instead of one slot before it.
cl_rhash_iterator_create_at_peek(hash) ==
  [n_table |-> CL_RHASH_TABLE_LO,
   n_slot |-> W32(hash.h_lo.n_peek),
   n_edit |-> hash.n_edit]

\* struct cl_rhash_iterator; the hash it points to is the one hash of the model
cl_rhash_iterator_create(hash) ==
  [n_table |-> CL_RHASH_TABLE_LO,
   n_slot |-> Dec32(W32(hash.h_lo.n_peek)),
   n_edit |-> hash.n_edit]

\* TRUE when the assert of the check holds
cl_rhash_iterator_check(hash, i) == hash.n_edit = i.n_edit

cl_rhash_iterator_done(i) == i.n_table >= CL_RHASH_TABLE_NONE

\* "lo", "hi" or "null"
cl_rhash_iterator_table(i) ==
  IF i.n_table = CL_RHASH_TABLE_LO THEN "lo"
  ELSE IF i.n_table = CL_RHASH_TABLE_HI THEN "hi" ELSE "null"

IterTbl(hash, i) ==
  IF cl_rhash_iterator_table(i) = "lo" THEN hash.h_lo ELSE hash.h_hi

cl_rhash_iterator_table_done(hash, i) ==
  cl_rhash_iterator_table(i) # "null" /\
  GreaterEq32(i.n_slot, cl_rhash_table_size(IterTbl(hash, i)))

cl_rhash_iterator_next_table(hash, i) ==
  IF i.n_table = CL_RHASH_TABLE_LO
  THEN [i EXCEPT !.n_table = CL_RHASH_TABLE_HI,
                  !.n_slot = W32(hash.h_hi.n_peek)]
  ELSE [i EXCEPT !.n_table = CL_RHASH_TABLE_NONE, !.n_slot = W32(0)]

RECURSIVE next_slot_loop(_, _)
next_slot_loop(hash, i) ==
  IF cl_rhash_iterator_table_done(hash, i)
  THEN next_slot_loop(hash, cl_rhash_iterator_next_table(hash, i))
  ELSE i

cl_rhash_iterator_next_slot(hash, i) ==
  next_slot_loop(hash, [i EXCEPT !.n_slot = Add32(@, W32(1))])

\* The entry the iterator is at, or EmptyEntry for NULL.
cl_rhash_iterator_entry(hash, i) ==
  IF cl_rhash_iterator_table(i) # "null"
  THEN IterTbl(hash, i).table[i.n_slot[2]]
  ELSE EmptyEntry

\* A next() that starts over at the low table once it has reported the end.
RECURSIVE iterator_next_loop_restart(_, _)
iterator_next_loop_restart(hash, i) ==
  IF cl_rhash_iterator_done(i)
  THEN [it |-> [i EXCEPT !.n_table = CL_RHASH_TABLE_LO,
                         !.n_slot = Dec32(W32(hash.h_lo.n_peek))],
        key |-> NULL]
  ELSE LET j == cl_rhash_iterator_next_slot(hash, i)
           ent == cl_rhash_iterator_entry(hash, j)
       IN IF cl_rhash_table_entry_exists(ent) THEN [it |-> j, key |-> ent[1]]
          ELSE iterator_next_loop_restart(hash, j)

\* The result: the iterator and the key (or NULL).
RECURSIVE iterator_next_loop(_, _)
iterator_next_loop(hash, i) ==
  IF cl_rhash_iterator_done(i) THEN [it |-> i, key |-> NULL]
  ELSE LET j == cl_rhash_iterator_next_slot(hash, i)
           ent == cl_rhash_iterator_entry(hash, j)
       IN IF cl_rhash_table_entry_exists(ent) THEN [it |-> j, key |-> ent[1]]
          ELSE iterator_next_loop(hash, j)

cl_rhash_iterator_next(hash, i) ==
  IF ~cl_rhash_iterator_check(hash, i)
  THEN [it |-> i, key |-> NULL, failed |-> "iterator_check: assert(n_edit)"]
  ELSE [failed |-> ""] @@ iterator_next_loop(hash, i)

\* A value() that reads the first word of the entry, the key, not the second.
cl_rhash_iterator_value_first_word(hash, i) ==
  IF ~cl_rhash_iterator_check(hash, i)
  THEN [val |-> NULL, failed |-> "iterator_check: assert(n_edit)"]
  ELSE IF ~cl_rhash_is_map(hash) \/ cl_rhash_iterator_table(i) = "null"
  THEN [val |-> NULL, failed |-> ""]
  ELSE IF GreaterEq32(i.n_slot, cl_rhash_table_size(IterTbl(hash, i)))
  THEN [val |-> NULL, failed |-> "table_ptr: assert(slot < size)"]
  ELSE [val |-> IterTbl(hash, i).table[i.n_slot[2]][1], failed |-> ""]

\* The result: the value (or NULL) and the assert that failed, if one did.
cl_rhash_iterator_value(hash, i) ==
  IF ~cl_rhash_iterator_check(hash, i)
  THEN [val |-> NULL, failed |-> "iterator_check: assert(n_edit)"]
  ELSE IF ~cl_rhash_is_map(hash) \/ cl_rhash_iterator_table(i) = "null"
  THEN [val |-> NULL, failed |-> ""]
  ELSE IF GreaterEq32(i.n_slot, cl_rhash_table_size(IterTbl(hash, i)))
  THEN [val |-> NULL, failed |-> "table_ptr: assert(slot < size)"]
  ELSE [val |-> IterTbl(hash, i).table[i.n_slot[2]][2], failed |-> ""]

\* ------------------------------------------------------------------ state
VARIABLES
  hash,     \* the struct cl_rhash under test
  it,       \* one iterator handle of the caller
  failed,   \* the assert that ended the program, "" while it runs
  ret,      \* the last public call: its name, its result, what it met and did
  ghost,    \* what the caller put in: for each key pointer the value last
            \* stored under an equal key, or Absent
  it_keys,  \* the keys next() returned since the iterator was created
  it_nulls, \* how often next() returned NULL since then: 0, 1, 2 (or more)
  it_mut    \* a call changed the hash since the iterator was created

VARIABLES
  list,     \* a struct cl_list and the node blocks of its pool
  lit,      \* one list iterator handle of the caller
  l_seen,   \* what cl_list_iterator_next returned since lit was created
  chash     \* a struct cl_hash (hash.c), a map with int keys

VARIABLES
  tab,      \* one struct cl_rhash_table, called as the dual-table hash calls
  tcall     \* the last call on tab: its name, its entry, tab before, result

\* What the public calls on the dual-table hash leave alone: the other
\* containers of clump and the table that is called on its own.
others == <<list, lit, l_seen, chash, tab, tcall>>

vars == <<hash, it, failed, ret, ghost, it_keys, it_nulls, it_mut, others>>

\* ----------------------------------------------------------------- list.c
Nodes == 1..MaxNodes

Items == 1..NItems

\* A block of the pool: used is false while the pool holds it.
FreeNode == [item |-> NULL, next |-> NULL, used |-> FALSE]

cl_list_create ==
  [head |-> NULL, tail |-> NULL, n_entries |-> 0,
   node |-> [n \in Nodes |-> FreeNode]]

\* The blocks cl_pool_alloc may return.
FreeNodes(l) == {n \in Nodes : ~l.node[n].used}

cl_list_is_empty(l) == l.head = NULL

cl_list_count(l) == l.n_entries

\* n is the block cl_pool_alloc returned.
cl_list_add(l, n, item) ==
  [l EXCEPT !.node[n] = [item |-> item, next |-> l.head, used |-> TRUE],
            !.head = n,
            !.tail = IF l.tail = NULL THEN n ELSE @,
            !.n_entries = @ + 1]

\* An add_tail that links the new node and leaves the tail pointer alone.
cl_list_add_tail_keeps_tail(l, n, item) ==
  IF l.tail # NULL
  THEN [l EXCEPT !.node[n] = [item |-> item, next |-> NULL, used |-> TRUE],
                 !.node[l.tail].next = n,
                 !.n_entries = @ + 1]
  ELSE cl_list_add(l, n, item)

cl_list_add_tail(l, n, item) ==
  IF l.tail # NULL
  THEN [l EXCEPT !.node[n] = [item |-> item, next |-> NULL, used |-> TRUE],
                 !.node[l.tail].next = n,
                 !.tail = n,
                 !.n_entries = @ + 1]
  ELSE cl_list_add(l, n, item)

\* The result: the list and the item (or NULL).
cl_list_pop(l) ==
  LET n == l.head
  IN IF n # NULL
     THEN [list |-> [l EXCEPT !.head = l.node[n].next,
                              !.tail = IF l.node[n].next # NULL THEN @
                                       ELSE NULL,
                              !.n_entries = @ - 1,
                              !.node[n] = [@ EXCEPT !.next = NULL,
                                                    !.used = FALSE]],
           item |-> l.node[n].item]
     ELSE [list |-> l, item |-> NULL]

\* The prev pointer of an iterator is a node pointer (ptr) and its lowest
\* bit (bit): NULL is <<NULL, 0>>, (struct cl_list_node *)1 is <<NULL, 1>>.
NoListIterator == [state |-> "none", ptr |-> NULL, bit |-> 0]

cl_list_iterator_create == [state |-> "live", ptr |-> NULL, bit |-> 0]

cl_list_iterator_prev(i) == i.ptr

cl_list_iterator_curr(l, i) ==
  LET p == cl_list_iterator_prev(i)
  IN IF p # NULL THEN l.node[p].next ELSE l.head

cl_list_iterator_advance(l, i) ==
  IF i.ptr = NULL /\ i.bit = 0 THEN [i EXCEPT !.bit = 1]
  ELSE IF i.ptr = NULL /\ i.bit = 1 THEN [i EXCEPT !.ptr = l.head, !.bit = 0]
  ELSE IF i.bit = 1 THEN [i EXCEPT !.bit = 0]
  ELSE [i EXCEPT !.ptr = l.node[i.ptr].next]

\* The result: the iterator and the item (or NULL).
cl_list_iterator_next(l, i) ==
  LET j == cl_list_iterator_advance(l, i)
      curr == cl_list_iterator_curr(l, j)
  IN [it |-> j, item |-> IF curr # NULL THEN l.node[curr].item ELSE NULL]

ListInit ==
  /\ list = cl_list_create
  /\ lit = NoListIterator
  /\ l_seen = <<>>

\* ----------------------------------------------------------------- hash.c
\* Scaled as the orders of rhash.c (the source: 1 << 6 and 1U << 31).
CL_HASH_MIN_SIZE == Pow2(MinOrder)

CL_HASH_MAX_SIZE == Pow2(MaxOrder)

\* The callers' fn_hash; their fn_compare compares the ints.
cl_hash_int(v) == v

\* hcode & (n_size - 1), n_size a power of two
cl_hash_bucket(h, hcode) == hcode % h.n_size

cl_hash_limit(h) == h.n_size \div 2

\* Each bucket is the chain of its entries, the first entry first.
cl_hash_create ==
  [n_size |-> CL_HASH_MIN_SIZE, n_entries |-> 0,
   table |-> [b \in 0..(CL_HASH_MIN_SIZE - 1) |-> <<>>]]

cl_hash_equals(e, key, hcode) == hcode = cl_hash_int(e.key) /\ key = e.key

cl_hash_get(h, key) ==
  LET hcode == cl_hash_int(key)
      chain == h.table[cl_hash_bucket(h, hcode)]
      found == {i \in 1..Len(chain) : cl_hash_equals(chain[i], key, hcode)}
  IN IF found = {} THEN NULL
     ELSE chain[CHOOSE i \in found : \A j \in found : i <= j].value

\* The inner loop of cl_hash_resize: the entries of one old chain, from its
\* first on, each put in front of its new chain.
RECURSIVE resize_chain_loop(_, _, _)
resize_chain_loop(h, chain, i) ==
  IF i > Len(chain) THEN h
  ELSE LET bucket == cl_hash_bucket(h, cl_hash_int(chain[i].key))
       IN resize_chain_loop(
            [h EXCEPT !.table[bucket] = <<chain[i]>> \o @], chain, i + 1)

RECURSIVE resize_loop(_, _, _, _)
resize_loop(h, o_table, i, o_size) ==
  IF i >= o_size THEN h
  ELSE resize_loop(resize_chain_loop(h, o_table[i], 1), o_table, i + 1,
                   o_size)

cl_hash_resize(h, n_size) ==
  resize_loop([h EXCEPT !.n_size = n_size,
                        !.table = [b \in 0..(n_size - 1) |-> <<>>]],
              h.table, 0, h.n_size)

cl_hash_expand(h) ==
  IF h.n_size < CL_HASH_MAX_SIZE THEN cl_hash_resize(h, h.n_size * 2) ELSE h

cl_hash_insert(h, e) ==
  [h EXCEPT !.n_entries = @ + 1,
            !.table[cl_hash_bucket(h, cl_hash_int(e.key))] = <<e>> \o @]

\* The result: the hash and the pointer the call returns.
cl_hash_put(h, key, value) ==
  LET h1 == IF h.n_entries >= cl_hash_limit(h) THEN cl_hash_expand(h) ELSE h
  IN [hash |-> cl_hash_insert(h1, [key |-> key, value |-> value]),
      res |-> key]

Absent == NULL - 1
\* the result of a call that does not return, or returns nothing
NoResult == NULL - 1
\* the result of a call whose behaviour is undefined
Undefined == NULL - 2

AllKeys == Keys \cup IterKeys \cup FillKeys \cup FullKeys

\* Key identity as the caller sees it: equal strings (key_bytes = 0) or
\* equal first key_bytes bytes.
SameKey(key_bytes, a, b) ==
  IF key_bytes = 0 THEN Str(KeyMem[a]) = Str(KeyMem[b])
  ELSE Prefix(KeyMem[a], key_bytes) = Prefix(KeyMem[b], key_bytes)

KeyBytes == hash.h_hi.key_bytes

Stored(g, key, val) ==
  [j \in AllKeys |-> IF SameKey(KeyBytes, j, key) THEN val ELSE g[j]]

\* An iterator handle: no block ("none"), a block of the pool ("live"), or a
\* pointer to a block the pool took back ("released").
NoIterator == [state |-> "none", n_table |-> CL_RHASH_TABLE_NONE,
               n_slot |-> Dec32(W32(0)), n_edit |-> 0]

\* present: the caller had stored the key of the call and not removed it;
\* steps: what the call did between the two tables
Call(op, res, present, steps) ==
  [op |-> op, res |-> res, present |-> present, steps |-> steps]

Present(key) == ghost[key] # Absent

\* cl_pool_clear gives every block of the pool back: the caller's handle now
\* points to a released block.
cl_pool_clear(i) ==
  IF i.state = "live" THEN [i EXCEPT !.state = "released"] ELSE i

\* A table as cl_rhash_table_init (minimum order) or the allocation of
\* cl_rhash_expand (a higher order) leaves it.
NewTable(n_bytes, order) ==
  [cl_rhash_table_init(0, n_bytes) EXCEPT
     !.order = order, !.n_peek = Pow2(order), !.table = ZeroTable(order)]

NoCall == [op |-> "none", pc |-> "done"]

TableInit(words, orders) ==
  /\ \E n \in words, o \in orders : tab = NewTable(n, o)
  /\ tcall = NoCall

HashInit(maps, widths) ==
  /\ \E m \in maps, w \in widths : hash = cl_rhash_create(w, m)
  /\ it = NoIterator
  /\ failed = ""
  /\ ret = Call("create", NoResult, FALSE, {})
  /\ ghost = [j \in AllKeys |-> Absent]
  /\ it_keys = <<>>
  /\ it_nulls = 0
  /\ it_mut = FALSE

InitWith(maps, widths) ==
  /\ HashInit(maps, widths)
  /\ ListInit
  /\ chash = cl_hash_create
  /\ TableInit({1}, {CL_HASH_MIN_ORDER})

Init == InitWith(BOOLEAN, {0})

\* A call that ended in a failed assert: the program is gone.
Abort(op, why) ==
  /\ failed' = why
  /\ ret' = Call(op, NoResult, FALSE, {})
  /\ UNCHANGED <<hash, it, ghost, it_keys, it_nulls, it_mut>>

\* cl_rhash_add
Add(key, cap) ==
  /\ failed = "" /\ UNCHANGED others /\ hash.n_edit < cap
  /\ \E r \in {cl_rhash_add(hash, key)} :
        IF r.failed # "" THEN Abort("add", r.failed)
        ELSE /\ hash' = r.hash
             /\ ret' = Call("add", r.key, Present(key), r.steps)
             /\ ghost' = IF cl_rhash_is_map(hash) THEN ghost
                         ELSE Stored(ghost, key, NULL)
             /\ it_mut' = (it_mut \/ (it.state # "none" /\ ~cl_rhash_is_map(hash)))
             /\ UNCHANGED <<it, failed, it_keys, it_nulls>>

\* cl_rhash_put
Put(key, value, cap) ==
  /\ failed = "" /\ UNCHANGED others /\ hash.n_edit < cap
  /\ \E r \in {cl_rhash_put(hash, key, value)} :
        IF r.failed # "" THEN Abort("put", r.failed)
        ELSE /\ hash' = r.hash
             /\ ret' = Call("put", r.key, Present(key), r.steps)
             /\ ghost' = IF cl_rhash_is_map(hash)
                         THEN Stored(ghost, key, value) ELSE ghost
             /\ it_mut' = (it_mut \/ (it.state # "none" /\ cl_rhash_is_map(hash)))
             /\ UNCHANGED <<it, failed, it_keys, it_nulls>>

\* cl_rhash_remove
Remove(key, cap) ==
  /\ failed = "" /\ UNCHANGED others /\ hash.n_edit < cap
  /\ \E r \in {cl_rhash_remove(hash, key)} :
        IF r.failed # "" THEN Abort("remove", r.failed)
        ELSE /\ hash' = r.hash
             /\ ret' = Call("remove", r.key, Present(key), r.steps)
             /\ ghost' = Stored(ghost, key, Absent)
             /\ it_mut' = (it_mut \/ (it.state # "none" /\ r.key # NULL))
             /\ UNCHANGED <<it, failed, it_keys, it_nulls>>

\* cl_rhash_clear
Clear(cap) ==
  /\ failed = "" /\ UNCHANGED others /\ hash.n_edit < cap
  /\ hash' = cl_rhash_clear(hash)
  /\ it' = cl_pool_clear(it)
  /\ ret' = Call("clear", NoResult, FALSE, {})
  /\ ghost' = [j \in AllKeys |-> Absent]
  /\ it_mut' = (it_mut \/ it.state # "none")
  /\ UNCHANGED <<failed, it_keys, it_nulls>>

\* cl_rhash_contains
Contains(key) ==
  /\ failed = "" /\ UNCHANGED others
  /\ ret' = Call("contains", IF cl_rhash_contains(hash, key) THEN 1 ELSE 0,
                 Present(key), {})
  /\ UNCHANGED <<hash, it, failed, ghost, it_keys, it_nulls, it_mut>>

\* cl_rhash_get
Get(key) ==
  /\ failed = "" /\ UNCHANGED others
  /\ ret' = Call("get", cl_rhash_get(hash, key), Present(key), {})
  /\ UNCHANGED <<hash, it, failed, ghost, it_keys, it_nulls, it_mut>>

\* cl_rhash_count
Count ==
  /\ failed = "" /\ UNCHANGED others
  /\ ret' = Call("count", cl_rhash_count(hash), FALSE, {})
  /\ UNCHANGED <<hash, it, failed, ghost, it_keys, it_nulls, it_mut>>

\* cl_rhash_peek
Peek ==
  /\ failed = "" /\ UNCHANGED others
  /\ \E r \in {cl_rhash_peek(hash)} :
       /\ hash' = r.hash
       /\ ret' = Call("peek", r.key, FALSE, {})
  /\ UNCHANGED <<it, failed, ghost, it_keys, it_nulls, it_mut>>

\* cl_rhash_iterator_create
IterCreate ==
  /\ failed = "" /\ UNCHANGED others /\ it.state = "none"
  /\ it' = [state |-> "live"] @@ cl_rhash_iterator_create(hash)
  /\ ret' = Call("iterator_create", NoResult, FALSE, {})
  /\ it_keys' = <<>>
  /\ it_nulls' = 0
  /\ it_mut' = FALSE
  /\ UNCHANGED <<hash, failed, ghost>>

\* cl_rhash_iterator_destroy
IterDestroy ==
  /\ failed = "" /\ UNCHANGED others /\ it.state = "live"
  /\ it' = NoIterator
  /\ ret' = Call("iterator_destroy", NoResult, FALSE, {})
  /\ it_keys' = <<>>
  /\ it_nulls' = 0
  /\ it_mut' = FALSE
  /\ UNCHANGED <<hash, failed, ghost>>

\* cl_rhash_iterator_next on a handle whose block is in the pool
IterNext ==
  /\ failed = "" /\ UNCHANGED others /\ it.state = "live"
  /\ \E r \in {cl_rhash_iterator_next(hash, it)} :
        IF r.failed # "" THEN Abort("iterator_next", r.failed)
        ELSE /\ it' = [state |-> "live"] @@ r.it
             /\ ret' = Call("iterator_next", r.key, FALSE, {})
             /\ it_keys' = IF r.key # NULL THEN Append(it_keys, r.key)
                           ELSE it_keys
             /\ it_nulls' = IF r.key # NULL THEN it_nulls
                            ELSE IF it_nulls = 0 THEN 1 ELSE 2
             /\ UNCHANGED <<hash, failed, ghost, it_mut>>

\* cl_rhash_iterator_value on a handle whose block is in the pool
IterValue ==
  /\ failed = "" /\ UNCHANGED others /\ it.state = "live"
  /\ \E r \in {cl_rhash_iterator_value(hash, it)} :
        IF r.failed # "" THEN Abort("iterator_value", r.failed)
        ELSE /\ ret' = Call("iterator_value", r.val, FALSE, {})
             /\ UNCHANGED <<hash, it, failed, ghost, it_keys, it_nulls, it_mut>>

\* cl_rhash_iterator_next or _value on a handle whose block the pool took
\* back in cl_rhash_clear: the check reads released memory, so the assert
\* may fail or pass, and what a passing call returns is undefined.
IterUseReleased ==
  /\ failed = "" /\ UNCHANGED others /\ it.state = "released"
  /\ \E op \in {"iterator_next", "iterator_value"} :
       \/ Abort(op, "iterator_check: assert(n_edit)")
       \/ /\ ret' = Call(op, Undefined, FALSE, {})
          /\ UNCHANGED <<hash, it, failed, ghost, it_keys, it_nulls, it_mut>>

\* The callers of Spec: the calls that change the hash, keys 1..NKeys, a set
\* or a map, string keys or keys of one byte.
Next ==
  \/ \E k \in Keys : Add(k, MaxEdit)
  \/ \E k \in Keys, v \in Values : Put(k, v, MaxEdit)
  \/ \E k \in Keys : Remove(k, MaxEdit)
  \/ Clear(MaxEdit)
  \/ Peek

Spec == Init /\ [][Next]_vars

\* The callers of SpecIter: every public call, with one iterator.
NextIter ==
  \/ \E k \in IterKeys : Add(k, MaxIterEdit)
  \/ \E k \in IterKeys : Put(k, IterValueOf(k), MaxIterEdit)
  \/ \E k \in IterKeys : Remove(k, MaxIterEdit)
  \/ Clear(MaxIterEdit)
  \/ \E k \in IterKeys : Contains(k)
  \/ \E k \in IterKeys : Get(k)
  \/ Count
  \/ Peek
  \/ IterCreate
  \/ IterDestroy
  \/ IterNext
  \/ IterValue
  \/ IterUseReleased

SpecIter == InitWith(BOOLEAN, {0}) /\ [][NextIter]_vars

\* The callers of SpecFill: a set of string keys; a caller adds the first of
\* NFillKeys different keys that is not in the set, or removes any key.  It
\* takes the tables to the maximum order and past its load limit.
NextFill ==
  \/ \E k \in FillKeys :
       /\ \A j \in FillKeys : j < k => ghost[j] # Absent
       /\ ghost[k] = Absent
       /\ Add(k, MaxFillEdit)
  \/ \E k \in FillKeys : Remove(k, MaxFillEdit)

SpecFill == InitWith({FALSE}, {0}) /\ [][NextFill]_vars

\* The callers of SpecGrow: a set of string keys; a caller adds the first of
\* NGrowKeys different keys that is not in the set, adds a key that is in
\* the set again, or removes any key.  It takes the tables through two
\* expands and back.
GrowKeys == {k \in FillKeys : k <= NGrowKeys + 1}

NextGrow ==
  \/ \E k \in GrowKeys :
       /\ \A j \in GrowKeys : j < k => ghost[j] # Absent
       /\ ghost[k] = Absent
       /\ Add(k, MaxGrowEdit)
  \/ \E k \in GrowKeys : ghost[k] # Absent /\ Add(k, MaxGrowEdit)
  \/ \E k \in GrowKeys : Remove(k, MaxGrowEdit)

SpecGrow == InitWith({FALSE}, {0}) /\ [][NextGrow]_vars

\* The callers of SpecWidth: sets and maps of string keys (key_bytes 0) and
\* of keys of one and of two bytes, and four key objects: 1 and 5 hold the
\* same bytes, 7 has the first byte of 1 and another second byte, 2 differs
\* from all in its first byte.
Widths == {0, 1, 2}

WidthKeys == {1, 2, 5, 7}

NextWidth ==
  \/ \E k \in WidthKeys : Add(k, MaxWidthEdit)
  \/ \E k \in WidthKeys, v \in Values : Put(k, v, MaxWidthEdit)
  \/ \E k \in WidthKeys : Remove(k, MaxWidthEdit)
  \/ \E k \in WidthKeys : Contains(k)

SpecWidth == InitWith(BOOLEAN, Widths) /\ [][NextWidth]_vars

\* ------------------------------------------------------------ vocabulary
\* The slots of a table that hold an entry, and the key pointers in them.
Occupied(tbl) == {s \in DOMAIN tbl.table : tbl.table[s][1] # NULL}

StoredKeys(tbl) == {tbl.table[s][1] : s \in Occupied(tbl)}

\* One pointer for every key: the first pointer to equal bytes.
Canon(key) ==
  CHOOSE j \in AllKeys :
    /\ SameKey(KeyBytes, j, key)
    /\ \A i \in AllKeys : SameKey(KeyBytes, i, key) => j <= i

ContainedKeys == {Canon(k) : k \in {j \in AllKeys : cl_rhash_contains(hash, j)}}

Expanded == hash.h_hi.order > CL_HASH_MIN_ORDER

\* ------------------------------------------------------------------ C1
\* C1: every key the caller added or put and did not remove or clear since
\* is reported by contains, and on a map get returns the value of the most
\* recent put of that key, whichever table holds the entry.
C1_RoundTrip ==
  \A k \in AllKeys :
    ghost[k] # Absent =>
      /\ cl_rhash_contains(hash, k)
      /\ cl_rhash_is_map(hash) => cl_rhash_get(hash, k) = ghost[k]

\* A map after an expand, keys in both tables, right after a put that
\* replaced the value of a key that was stored.
C1_Witness ==
  /\ cl_rhash_is_map(hash) /\ Expanded
  /\ hash.h_lo.n_entries > 0 /\ hash.h_hi.n_entries > 1
  /\ ret.op = "put" /\ ret.present /\ ret.res # NULL
  /\ \E k \in Keys : ghost[k] = 2 /\ cl_rhash_table_contains(hash.h_hi, k)
  /\ \E k \in Keys : ghost[k] = 1 /\ cl_rhash_table_contains(hash.h_lo, k)

\* ------------------------------------------------------------------ C2
\* C2: count() equals the number of distinct keys contains reports.
C2_CountInvariant == cl_rhash_count(hash) = Cardinality(ContainedKeys)

\* Three keys left in two tables after a remove that found its key.
C2_Witness ==
  /\ ret.op = "remove" /\ ret.res # NULL
  /\ hash.h_lo.n_entries > 0 /\ hash.h_hi.n_entries > 0
  /\ cl_rhash_count(hash) = 3

\* ------------------------------------------------------------------ C3
\* C3: between two public calls no key is stored in both tables.
C3_NoDuplication ==
  \A a \in StoredKeys(hash.h_lo), b \in StoredKeys(hash.h_hi) :
    ~SameKey(KeyBytes, a, b)

\* Right after an add or put of a key that was stored in lo: the call
\* evicted it there, and lo still holds other keys.
C3_Witness ==
  /\ ret.op \in {"add", "put"} /\ "evict_lo" \in ret.steps
  /\ hash.h_lo.n_entries > 0 /\ hash.h_hi.n_entries > 0

\* ------------------------------------------------------------------ C4
\* C4: after every public call, at every order up to the maximum order,
\* each table holds at most 3/4 of its size.
C4_LoadFactor ==
  /\ 4 * hash.h_lo.n_entries <= 3 * cl_rhash_table_size(hash.h_lo)
  /\ 4 * hash.h_hi.n_entries <= 3 * cl_rhash_table_size(hash.h_hi)

C6_RemoveAbsentNoOp ==
  [][(ret'.op = "remove" /\ ~ret'.present /\ failed' = "") =>
       /\ ret'.res = NULL
       /\ ret'.steps = {}
       /\ hash' = hash
       /\ it' = it
       /\ (it.state = "live" =>
             cl_rhash_iterator_check(hash', it') =
               cl_rhash_iterator_check(hash, it))]_vars

\* After such a remove, on an expanded hash that holds keys, with a live
\* iterator created since the last change.
C6_Witness ==
  /\ ret.op = "remove" /\ ~ret.present /\ ret.res = NULL
  /\ it.state = "live" /\ ~it_mut /\ Len(it_keys) > 0
  /\ Expanded /\ cl_rhash_count(hash) > 0

\* ------------------------------------------------------------------ C7
\* The pointer stored for the key equal to key.
StoredPtr(h, key) ==
  CHOOSE p \in StoredKeys(h.h_lo) \cup StoredKeys(h.h_hi) :
    SameKey(KeyBytes, p, key)

\* C7: a remove of a key that is in the hash returns the stored key; after
\* it the key is not contained, count() is one lower, and every other key
\* contained before is contained still, on a map with its value.
C7_RemovePresent ==
  [][(ret'.op = "remove" /\ ret'.present /\ failed' = "") =>
       /\ cl_rhash_count(hash') = cl_rhash_count(hash) - 1
       /\ \A k \in AllKeys :
            (ghost[k] # Absent /\ ghost'[k] = Absent) =>
              /\ ret'.res = StoredPtr(hash, k)
              /\ ~cl_rhash_contains(hash', k)
       /\ \A j \in AllKeys :
            (cl_rhash_contains(hash, j) /\ ghost'[j] # Absent) =>
              /\ cl_rhash_contains(hash', j)
              /\ cl_rhash_get(hash', j) = cl_rhash_get(hash, j)]_vars

\* After a remove that found its key and moved an entry down, keys left in
\* both tables.
C7_Witness ==
  /\ ret.op = "remove" /\ ret.present /\ ret.res # NULL
  /\ "move_lower" \in ret.steps
  /\ hash.h_lo.n_entries > 1 /\ hash.h_hi.n_entries > 0

\* ------------------------------------------------------------------ C8
IterKeySet == {it_keys[n] : n \in 1..Len(it_keys)}

\* C8: an iterator advanced to its end with no add, put, remove or clear in
\* between has returned count() keys, all different, and they are the keys
\* stored in the two tables; on the way it returns no key twice and none
\* that is not stored.
C8_IterationComplete ==
  (it.state = "live" /\ ~it_mut) =>
    /\ Cardinality(IterKeySet) = Len(it_keys)
    /\ IterKeySet \subseteq StoredKeys(hash.h_lo) \cup StoredKeys(hash.h_hi)
    /\ cl_rhash_iterator_done(it) =>
         /\ Len(it_keys) = cl_rhash_count(hash)
         /\ IterKeySet = StoredKeys(hash.h_lo) \cup StoredKeys(hash.h_hi)

\* An iterator at its end that went through keys of both tables.
C8_Witness ==
  /\ it.state = "live" /\ ~it_mut /\ cl_rhash_iterator_done(it)
  /\ ret.op = "iterator_next" /\ ret.res = NULL
  /\ hash.h_lo.n_entries > 1 /\ hash.h_hi.n_entries > 1
  /\ Len(it_keys) = 4

C10_StickyExhaustion ==
  [][(it.state = "live" /\ it'.state = "live" /\ failed' = "") =>
       /\ it'.n_table >= it.n_table
       /\ (it_nulls > 0 /\ ret'.op = "iterator_next") =>
            /\ ret'.res = NULL
            /\ cl_rhash_iterator_done(it')
            /\ it_keys' = it_keys]_vars

\* A second NULL from an iterator that had returned keys before.
C10_Witness ==
  /\ it.state = "live" /\ it_nulls = 2 /\ Len(it_keys) > 1
  /\ ret.op = "iterator_next" /\ ret.res = NULL

\* ------------------------------------------------------------------ C11
\* What C11 says of a call that stores key in its own mode and returns.
InsertContract(key) ==
  IF cl_rhash_contains(hash, key)
  THEN /\ ret'.res = StoredPtr(hash, key)
       /\ cl_rhash_count(hash') = cl_rhash_count(hash)
  ELSE /\ ret'.res = NULL
       /\ cl_rhash_count(hash') = cl_rhash_count(hash) + 1

\* The step is add(key) on a set or put(key, v) on a map.
InsertCalledWith(key) ==
  \E r \in IF ret'.op = "add"
           THEN IF cl_rhash_is_map(hash) THEN {}
                ELSE {cl_rhash_add(hash, key)}
           ELSE IF ~cl_rhash_is_map(hash) THEN {}
                ELSE {cl_rhash_put(hash, key, v) : v \in Values} :
    r.failed = "" /\ r.hash = hash' /\ r.key = ret'.res

\* C11: add on a set and put on a map return the stored equal key exactly
\* when the key was in the low or the high table before the call, and then
\* count() is unchanged; they return NULL exactly when it was in neither,
\* and then count() grows by one.
C11_InsertResult ==
  [][(ret'.op \in {"add", "put"} /\ failed' = "") =>
       \A k \in Keys : InsertCalledWith(k) => InsertContract(k)]_vars

\* After an add that found its key in the low table, given through another
\* pointer than the stored one.
C11_Witness ==
  /\ ret.op = "add" /\ ret.res # NULL /\ "evict_lo" \in ret.steps
  /\ \E p \in StoredKeys(hash.h_hi) :
       p # ret.res /\ SameKey(KeyBytes, p, ret.res)

\* ------------------------------------------------------------------ C12
\* C12: peek() returns a key exactly when count() > 0; the key is contained
\* in the hash, and it is a key of the low table when that holds an entry
\* and of the high table otherwise.  (peek changes only the scan cursors,
\* so the state after the call shows the tables the call looked at.)
C12_PeekResult ==
  ret.op = "peek" =>
    /\ (ret.res # NULL) <=> (cl_rhash_count(hash) > 0)
    /\ ret.res # NULL => cl_rhash_contains(hash, ret.res)
    /\ Occupied(hash.h_lo) # {} => ret.res \in StoredKeys(hash.h_lo)
    /\ (Occupied(hash.h_lo) = {} /\ Occupied(hash.h_hi) # {})
         => ret.res \in StoredKeys(hash.h_hi)

\* A peek that found its key in the low table past the first slot, after a
\* remove took the entry the cursor stood at, keys left in the high table.
C12_Witness ==
  /\ ret.op = "peek" /\ ret.res \in StoredKeys(hash.h_lo)
  /\ hash.h_lo.n_peek > 0
  /\ hash.h_hi.n_entries > 0

\* ------------------------------------------------------------------ C13
\* The expand threshold of a table of the minimum order: 3/4 of its size
\* (48 of 64 in the source).
FreshLimit == Pow2(CL_HASH_MIN_ORDER) - (Pow2(CL_HASH_MIN_ORDER) \div 4)

\* The calls since create were adds of new keys only: each of them raised
\* the count and the edit version by one.
OnlyFreshAdds == hash.n_edit = cl_rhash_count(hash)

\* C13 as claimed: adding one key more than the threshold of the minimum
\* order (49 keys in the source) to a fresh set, all different, triggers no
\* expand.
C13_NoExpandPastThreshold ==
  (OnlyFreshAdds /\ cl_rhash_count(hash) <= FreshLimit + 1) => ~Expanded

\* C13 as amended: adding new keys to a fresh set triggers no expand while
\* there are fewer than the threshold (up to 47 in the source); the add
\* that brings the count to the threshold (the 48th) expands, to the orders
\* minimum and minimum + 1.
C13_ExpandAtThreshold ==
  OnlyFreshAdds =>
    /\ cl_rhash_count(hash) < FreshLimit =>
         /\ ~Expanded
         /\ hash.h_lo.order = CL_HASH_MIN_ORDER
         /\ hash.h_hi.n_entries = cl_rhash_count(hash)
    /\ cl_rhash_count(hash) = FreshLimit =>
         /\ ret.op = "add" => "expand" \in ret.steps
         /\ hash.h_lo.order = CL_HASH_MIN_ORDER
         /\ hash.h_hi.order = CL_HASH_MIN_ORDER + 1
         /\ hash.h_lo.n_entries = FreshLimit

\* Right after the add that brought a fresh set to the threshold.
C13_Witness ==
  /\ OnlyFreshAdds /\ cl_rhash_count(hash) = FreshLimit
  /\ ret.op = "add" /\ ret.res = NULL /\ "expand" \in ret.steps

\* ------------------------------------------------------------------ C14
\* The expand condition of the claim, on the tables of h.
ExpandDue(h) ==
  /\ h.h_lo.n_entries = 0
  /\ h.h_hi.order < CL_HASH_MAX_ORDER
  /\ 4 * h.h_hi.n_entries >= 3 * cl_rhash_table_size(h.h_hi)

\* The step replaced the high table by one of another order.
ExpandedInStep == hash'.h_hi.order # hash.h_hi.order

\* C14: an add expands exactly when, after its insertion and its move of an
\* entry to the high table, the low table is empty, the high table is below
\* the maximum order and holds at least 3/4 of its size.  An add that did
\* not expand leaves the tables as they were after those two steps, so the
\* condition is false of them; an add that did expand has made the high
\* table the low one: it holds at least 3/4 of its size, the old low table
\* held nothing that is lost (the count is up by one), and the new high
\* table is empty and of the next order.  From a fresh hash the expand
\* comes with the add that brings the count to the threshold of the
\* minimum order, and gives the orders minimum and minimum + 1.
C14_ExpandTrigger ==
  [][(ret'.op = "add" /\ failed' = "") =>
       /\ ExpandedInStep <=> "expand" \in ret'.steps
       /\ ~ExpandedInStep => ~ExpandDue(hash')
       /\ ExpandedInStep =>
            /\ hash.h_hi.order < CL_HASH_MAX_ORDER
            /\ hash'.h_hi.order = hash.h_hi.order + 1
            /\ hash'.h_lo.order = hash.h_hi.order
            /\ hash'.h_hi.n_entries = 0 /\ Occupied(hash'.h_hi) = {}
            /\ 4 * hash'.h_lo.n_entries >= 3 * cl_rhash_table_size(hash'.h_lo)
            /\ cl_rhash_count(hash') = cl_rhash_count(hash) + 1
            /\ StoredKeys(hash.h_lo) \cup StoredKeys(hash.h_hi)
                 \subseteq StoredKeys(hash'.h_lo)
            /\ hash.h_lo.order = hash.h_hi.order =>
                 /\ cl_rhash_count(hash') = FreshLimit
                 /\ hash'.h_lo.order = CL_HASH_MIN_ORDER
                 /\ hash'.h_hi.order = CL_HASH_MIN_ORDER + 1]_vars

\* Right after the second expand, which emptied a low table of entries.
C14_Witness ==
  /\ ret.op = "add" /\ "expand" \in ret.steps /\ "move_higher" \in ret.steps
  /\ hash.h_hi.order = CL_HASH_MIN_ORDER + 2
  /\ hash.h_lo.n_entries = cl_rhash_table_limit(hash.h_lo)

\* ------------------------------------------------------------------ C15
\* The tables as an expand leaves them and as every add of a new key after
\* it keeps them until the low table is empty: the entries of the high
\* table plus twice those of the low table make the limit of the high one.
InRun(h) ==
  /\ h.h_hi.order > CL_HASH_MIN_ORDER
  /\ h.h_lo.n_entries > 0
  /\ h.h_hi.n_entries + 2 * h.h_lo.n_entries = cl_rhash_table_limit(h.h_hi)

\* The step is an add of a key that was not in the hash.
FreshAdd == ret'.op = "add" /\ ret'.res = NULL /\ failed' = ""

\* A run starts right after every expand, and an add of a new key in a run
\* moves exactly one entry up, empties the low table exactly when it
\* brings the high table to its limit, and stays in the run otherwise.
RunStep ==
  /\ ExpandedInStep => (hash'.h_hi.n_entries = 0 /\ InRun(hash'))
  /\ InRun(hash) =>
       /\ "move_higher" \in ret'.steps
       /\ IF ExpandedInStep
          THEN hash'.h_lo.n_entries = hash.h_hi.n_entries + 2
          ELSE /\ hash'.h_lo.n_entries = hash.h_lo.n_entries - 1
               /\ hash'.h_hi.n_entries = hash.h_hi.n_entries + 2
       /\ (hash.h_lo.n_entries = 1) <=>
            (hash.h_hi.n_entries + 2 = cl_rhash_table_limit(hash.h_hi))
       /\ ~ExpandedInStep => (InRun(hash') \/ hash'.h_lo.n_entries = 0)
       /\ hash'.h_lo.n_entries > 0 =>
            hash'.h_hi.n_entries < cl_rhash_table_limit(hash'.h_hi)

\* C15 as claimed: in a run of adds of new keys that starts right after an
\* expand, every add moves exactly one entry from the low to the high
\* table, the low table becomes empty on exactly the add that brings the
\* high table to 3/4 of its size, and that add expands; the low table is
\* never non-empty when the high table is at its limit.
C15_MigrationRun ==
  [][FreshAdd =>
       /\ RunStep
       /\ InRun(hash) => (ExpandedInStep <=> hash.h_lo.n_entries = 1)]_vars

\* What the code does: the same, but the add that empties the low table
\* expands only while the high table is below the maximum order.  At the
\* maximum order cl_rhash_should_expand is false: the run ends with an
\* empty low table and the high table at its limit, and later adds take
\* the high table past the limit (see C4).
C15_MigrationRunBelowMax ==
  [][FreshAdd =>
       /\ RunStep
       /\ InRun(hash) =>
            (ExpandedInStep <=>
               (hash.h_lo.n_entries = 1 /\
                hash.h_hi.order < CL_HASH_MAX_ORDER))]_vars

\* ------------------------------------------------------------------ C16
\* The shrink condition of the claim, on the tables of h.
ShrinkDue(h) ==
  /\ h.h_hi.n_entries = 0
  /\ h.h_hi.order > CL_HASH_MIN_ORDER
  /\ 4 * h.h_lo.n_entries <= cl_rhash_table_size(h.h_hi)

\* The step replaced the high table by a smaller one.
ShrunkInStep == hash'.h_hi.order < hash.h_hi.order

\* C16: a remove that found its key shrinks exactly when, after it, the
\* high table is empty and above the minimum order and the low table holds
\* at most 1/4 of the high table's size.  It shrinks once: the low table
\* with all its entries becomes the high one, the new low table is empty
\* and of half the size, so both sizes are halved; nothing else shrinks.
\* (A remove that did not shrink leaves the tables as the check saw them.)
C16_ShrinkTrigger ==
  [][failed' = "" =>
       /\ (ret'.op = "remove" /\ ret'.res # NULL /\ ~ShrunkInStep)
            => ~ShrinkDue(hash')
       /\ ShrunkInStep <=> "shrink" \in ret'.steps
       /\ ShrunkInStep =>
            /\ ret'.op = "remove" /\ ret'.res # NULL
            /\ hash.h_hi.order > CL_HASH_MIN_ORDER
            /\ hash'.h_hi.order = hash.h_hi.order - 1
            /\ hash'.h_hi.order = hash.h_lo.order
            /\ hash'.h_lo.order = hash.h_lo.order - 1
            /\ hash'.h_lo.n_entries = 0 /\ Occupied(hash'.h_lo) = {}
            /\ 4 * hash'.h_hi.n_entries <= cl_rhash_table_size(hash.h_hi)
            /\ cl_rhash_count(hash') = cl_rhash_count(hash) - 1
            /\ StoredKeys(hash'.h_hi) =
                 (StoredKeys(hash.h_lo) \cup StoredKeys(hash.h_hi))
                   \ {ret'.res}]_vars

\* Right after a shrink from the second level that kept keys.
C16_Witness ==
  /\ ret.op = "remove" /\ "shrink" \in ret.steps
  /\ hash.h_hi.order = CL_HASH_MIN_ORDER + 1
  /\ hash.h_hi.n_entries = cl_rhash_table_size(hash.h_hi) \div 2

\* ------------------------------------------------------------------ C17
\* The keys a step took from the low table to the high one.  An expand
\* makes the high table the low one, so what it moved up is in the new low
\* table; a shrink leaves a new, empty low table.
MovedUp ==
  IF ExpandedInStep THEN StoredKeys(hash.h_lo) \cap StoredKeys(hash'.h_lo)
  ELSE IF ShrunkInStep THEN {}
  ELSE StoredKeys(hash.h_lo) \cap StoredKeys(hash'.h_hi)

\* The keys a step took from the high table to the low one.
MovedDown ==
  IF ShrunkInStep THEN StoredKeys(hash.h_hi) \cap StoredKeys(hash'.h_hi)
  ELSE IF ExpandedInStep THEN {}
  ELSE StoredKeys(hash.h_hi) \cap StoredKeys(hash'.h_lo)

\* C17: an add moves at most one entry from the low to the high table and
\* none down, and expands at most once (the high order grows by at most
\* one) and never shrinks; a remove moves at most one entry from the high
\* to the low table and none up, and shrinks at most once and never
\* expands; no call moves more than one entry between the tables.
C17_BoundedWork ==
  [][failed' = "" =>
       /\ Cardinality(MovedUp) + Cardinality(MovedDown) <= 1
       /\ ret'.op = "add" =>
            /\ MovedDown = {}
            /\ hash'.h_hi.order \in {hash.h_hi.order, hash.h_hi.order + 1}
       /\ ret'.op = "remove" =>
            /\ MovedUp = {}
            /\ hash'.h_hi.order \in {hash.h_hi.order, hash.h_hi.order - 1}]_vars

\* After a remove that moved an entry down and then shrank.
C17_Witness ==
  /\ ret.op = "remove" /\ ret.steps = {"move_lower", "shrink"}
  /\ hash.h_hi.n_entries > 1

\* ------------------------------------------------------------------ C18
\* The stored pointers whose bytes make the same key as those of key: equal
\* strings for key_bytes = 0, equal first key_bytes bytes otherwise.
SameStored(h, key) ==
  {p \in StoredKeys(h.h_lo) \cup StoredKeys(h.h_hi) :
     SameKey(KeyBytes, p, key)}

\* The step is remove(key).
RemoveCalledWith(key) ==
  /\ ret'.op = "remove"
  /\ \E r \in {cl_rhash_remove(hash, key)} :
       r.failed = "" /\ r.hash = hash' /\ r.key = ret'.res

\* C18: keys are the same by content, not by address.  With key_bytes = 0
\* two key objects are the same key exactly when they hold the same
\* string, with key_bytes = N exactly when their first N bytes are equal:
\* an add or put of a key whose content is stored returns the stored
\* pointer and leaves count(), and adds an entry otherwise; contains and
\* remove find an entry through any pointer to the same content and
\* through no other.
C18_KeyIdentity ==
  [][failed' = "" =>
       \A k \in WidthKeys :
         /\ cl_rhash_contains(hash', k) <=> SameStored(hash', k) # {}
         /\ Cardinality(SameStored(hash', k)) <= 1
         /\ InsertCalledWith(k) =>
              IF SameStored(hash, k) # {}
              THEN /\ ret'.res \in SameStored(hash, k)
                   /\ cl_rhash_count(hash') = cl_rhash_count(hash)
              ELSE /\ ret'.res = NULL
                   /\ cl_rhash_count(hash') = cl_rhash_count(hash) + 1
         /\ RemoveCalledWith(k) =>
              IF SameStored(hash, k) # {}
              THEN /\ ret'.res \in SameStored(hash, k)
                   /\ SameStored(hash', k) = {}
                   /\ cl_rhash_count(hash') = cl_rhash_count(hash) - 1
              ELSE ret'.res = NULL /\ hash' = hash]_vars

\* Keys of one byte: an add through pointer 7 found the entry stored
\* through pointer 1 (the same first byte, another second byte), next to
\* the entry of a key with another first byte.
C18_Witness ==
  /\ KeyBytes = 1 /\ ret.op = "add" /\ ret.res = 1
  /\ 7 \in StoredKeys(hash.h_hi) /\ cl_rhash_count(hash) = 2
  /\ cl_rhash_contains(hash, 5)

\* ------------------------------------------------------------------ C19
\* C19: right after clear() the hash is as a freshly created hash of the
\* same key width and mode (no entry, both tables of the minimum order,
\* both scan cursors at the table size), but for the edit version.
C19_ClearIsFresh ==
  ret.op = "clear" =>
    hash = [cl_rhash_create(KeyBytes, cl_rhash_is_map(hash))
              EXCEPT !.n_edit = hash.n_edit]

\* ------------------------------------------------------------------ C20
\* C20: misuse across modes is a defined no-op.  On a map, add of any key
\* returns that key; on a set, put returns NULL, get returns NULL and
\* value() of a valid iterator handle returns NULL; and the call changes no
\* table slot, no entry count, no order and not the edit version.
C20_MisuseNoOp ==
  [][/\ cl_rhash_is_map(hash) =>
          /\ \A k \in IterKeys :
               \E r \in {cl_rhash_add(hash, k)} :
                  r.key = k /\ r.hash = hash /\ r.failed = ""
          /\ ret'.op = "add" =>
               hash' = hash /\ failed' = "" /\ ret'.res \in IterKeys
     /\ ~cl_rhash_is_map(hash) =>
          /\ \A k \in IterKeys :
               \E r \in {cl_rhash_put(hash, k, IterValueOf(k))} :
                  r.key = NULL /\ r.hash = hash /\ r.failed = ""
          /\ ret'.op = "put" => hash' = hash /\ failed' = "" /\ ret'.res = NULL
          /\ ret'.op = "get" => hash' = hash /\ failed' = "" /\ ret'.res = NULL
          /\ (ret'.op = "iterator_value" /\ it.state = "live") =>
               hash' = hash /\ (failed' = "" => ret'.res = NULL)
    ]_vars

\* add on a map that holds entries returned its key, and the map still does
\* not hold that key.
C20_Witness ==
  /\ cl_rhash_is_map(hash) /\ ret.op = "add" /\ ret.res \in IterKeys
  /\ ~cl_rhash_contains(hash, ret.res) /\ cl_rhash_count(hash) > 0

\* ------------------------------------------------------------------ C21
\* C21: in every state the order of the low table and the order of the high
\* table lie between the minimum and the maximum order.
C21_OrderRange ==
  /\ hash.h_lo.order \in CL_HASH_MIN_ORDER..CL_HASH_MAX_ORDER
  /\ hash.h_hi.order \in CL_HASH_MIN_ORDER..CL_HASH_MAX_ORDER

\* ------------------------------------------------------------------ C22
\* The callers of SpecFull: a set of string keys used as a stack; a caller
\* adds the first of NFullKeys different keys that is not in the set, or
\* removes the last of them that is.  It fills the high table of the maximum
\* order to its last slot.
NextFull ==
  \/ \E k \in FullKeys :
       /\ \A j \in FullKeys : j < k => ghost[j] # Absent
       /\ ghost[k] = Absent
       /\ Add(k, MaxFullEdit)
  \/ \E k \in FullKeys :
       /\ ghost[k] # Absent
       /\ \A j \in FullKeys : j > k => ghost[j] = Absent
       /\ Remove(k, MaxFullEdit)

SpecFull == InitWith({FALSE}, {0}) /\ [][NextFull]_vars

\* C22: no public call ends in the failure of a table-level insert: the
\* insert never finds its table full (assert n_entries < size) and never
\* probes every slot without placing the entry (assert(false)).
C22_InsertNeverFails ==
  failed \notin {"insert: assert(n_entries < n_size)", "insert: assert(false)"}

\* ------------------------------------------------------------------ C23
\* C23: on a map, a value() that follows a next() which returned key k, with
\* no mutation since, returns the value the map holds for k, which is
\* get(k); a value() that follows a next() which returned NULL returns NULL.
C23_IteratorValue ==
  [][(/\ ret'.op = "iterator_value" /\ failed' = ""
      /\ it.state = "live" /\ cl_rhash_is_map(hash)
      /\ Len(it_keys) + it_nulls > 0) =>
       IF it_nulls > 0 THEN ret'.res = NULL
       ELSE /\ ret'.res = cl_rhash_get(hash, it_keys[Len(it_keys)])
            /\ ret'.res = ghost[it_keys[Len(it_keys)]]
            /\ ret'.res # NULL]_vars

\* value() returned the value of the second key of an iteration, which is
\* not the value of the first.
C23_Witness ==
  /\ cl_rhash_is_map(hash) /\ ret.op = "iterator_value" /\ failed = ""
  /\ Len(it_keys) = 2 /\ it_nulls = 0
  /\ ret.res = cl_rhash_get(hash, it_keys[2])
  /\ ret.res # cl_rhash_get(hash, it_keys[1])

\* ------------------------------------------------------- callers of list.c
\* What the list actions leave alone.
rhash_vars == <<hash, it, ghost, it_keys, it_nulls, it_mut, tab, tcall>>

\* cl_list_add
ListAdd(item) ==
  /\ failed = "" /\ lit.state = "none"
  /\ \E n \in FreeNodes(list) : list' = cl_list_add(list, n, item)
  /\ ret' = Call("list_add", item, FALSE, {})
  /\ UNCHANGED <<rhash_vars, chash, failed, lit, l_seen>>

\* cl_list_add_tail
ListAddTail(item) ==
  /\ failed = "" /\ lit.state = "none"
  /\ \E n \in FreeNodes(list) : list' = cl_list_add_tail(list, n, item)
  /\ ret' = Call("list_add_tail", item, FALSE, {})
  /\ UNCHANGED <<rhash_vars, chash, failed, lit, l_seen>>

\* cl_list_pop
ListPop ==
  /\ failed = "" /\ lit.state = "none"
  /\ \E r \in {cl_list_pop(list)} :
       /\ list' = r.list
       /\ ret' = Call("list_pop", r.item, FALSE, {})
  /\ UNCHANGED <<rhash_vars, chash, failed, lit, l_seen>>

\* cl_list_iterator_create
ListIterCreate ==
  /\ failed = "" /\ lit.state = "none"
  /\ lit' = cl_list_iterator_create
  /\ l_seen' = <<>>
  /\ ret' = Call("list_iterator_create", NoResult, FALSE, {})
  /\ UNCHANGED <<rhash_vars, chash, failed, list>>

\* cl_list_iterator_next
ListIterNext ==
  /\ failed = "" /\ lit.state = "live" /\ Len(l_seen) < MaxSeen
  /\ \E r \in {cl_list_iterator_next(list, lit)} :
       /\ lit' = r.it
       /\ l_seen' = Append(l_seen, r.item)
       /\ ret' = Call("list_iterator_next", r.item, FALSE, {})
  /\ UNCHANGED <<rhash_vars, chash, failed, list>>

\* cl_list_iterator_destroy
ListIterDestroy ==
  /\ failed = "" /\ lit.state = "live"
  /\ lit' = NoListIterator
  /\ l_seen' = <<>>
  /\ ret' = Call("list_iterator_destroy", NoResult, FALSE, {})
  /\ UNCHANGED <<rhash_vars, chash, failed, list>>

\* The callers of SpecList: they add, append and pop items while they hold
\* no iterator (list.c has no check of a change under an iterator), and the
\* pool may hand out any of its free blocks.
NextList ==
  \/ \E item \in Items : ListAdd(item)
  \/ \E item \in Items : ListAddTail(item)
  \/ ListPop
  \/ ListIterCreate
  \/ ListIterNext
  \/ ListIterDestroy

SpecList == InitWith({FALSE}, {0}) /\ [][NextList]_vars

\* The items of the nodes from node n on, at most k of them.
RECURSIVE ListWalk(_, _, _)
ListWalk(l, n, k) ==
  IF n = NULL \/ k = 0 THEN <<>>
  ELSE <<l.node[n].item>> \o ListWalk(l, l.node[n].next, k - 1)

\* The items of the list from the head to the tail.
ListItems(l) == ListWalk(l, l.head, MaxNodes + 1)

\* ------------------------------------------------------------------ C24
\* C24: the list is a stack and a queue at once.  cl_list_add puts its item
\* in front of the others, cl_list_add_tail behind them, and cl_list_pop
\* returns and removes the first item, so appended items are popped in the
\* order of their insertion and pushed items in the reverse order, under
\* any interleaving of the three; a pop on an empty list returns NULL and
\* changes nothing.
C24_StackAndQueue ==
  [][/\ ret'.op = "list_add" =>
          ListItems(list') = <<ret'.res>> \o ListItems(list)
     /\ ret'.op = "list_add_tail" =>
          ListItems(list') = ListItems(list) \o <<ret'.res>>
     /\ ret'.op = "list_pop" =>
          IF ListItems(list) = <<>>
          THEN ret'.res = NULL /\ list' = list
          ELSE /\ ret'.res = Head(ListItems(list))
               /\ ListItems(list') = Tail(ListItems(list))
     /\ cl_list_count(list') = Len(ListItems(list'))]_vars

\* A pop returned the first of three items that were appended in the order
\* 1, 2, 3.
C24_Witness ==
  /\ ret.op = "list_pop" /\ ret.res = 1
  /\ ListItems(list) = <<2, 3>> /\ list.node[list.tail].item = 3

\* ------------------------------------------------------------------ C25
\* C25: on a list that is not modified, the calls of cl_list_iterator_next
\* on a fresh iterator return the items from the head to the tail, each
\* once, then NULL, and NULL again on every further call.
C25_IterateOnceThenNull ==
  lit.state = "live" =>
    \A j \in 1..Len(l_seen) :
      l_seen[j] = IF j <= Len(ListItems(list)) THEN ListItems(list)[j]
                  ELSE NULL

\* ------------------------------------------------------- callers of hash.c
\* Int keys: 3 and 7 share a bucket of a table of four.
HashKeys == {3, 4, 7}

\* cl_hash_put
HashPut(key, value) ==
  /\ failed = "" /\ chash.n_entries < MaxHashEntries
  /\ \E r \in {cl_hash_put(chash, key, value)} :
       /\ chash' = r.hash
       /\ ret' = Call("hash_put", r.res, FALSE, {})
  /\ UNCHANGED <<rhash_vars, failed, list, lit, l_seen>>

\* cl_hash_get
HashGet(key) ==
  /\ failed = ""
  /\ ret' = Call("hash_get", cl_hash_get(chash, key), FALSE, {})
  /\ UNCHANGED <<rhash_vars, failed, others>>

\* The callers of SpecHash: a map from ints to value pointers.
NextHash ==
  \/ \E k \in HashKeys, v \in Values : HashPut(k, v)
  \/ \E k \in HashKeys : HashGet(k)

SpecHash == InitWith({FALSE}, {0}) /\ [][NextHash]_vars

\* ------------------------------------------------------------------ C26
\* C26: cl_hash_put returns the value that was associated with its key
\* before the call (NULL when there was none).
C26_PutReturnsPrevious ==
  [][ret'.op = "hash_put" =>
       \A k \in HashKeys, v \in Values :
         chash' = cl_hash_put(chash, k, v).hash =>
           ret'.res = cl_hash_get(chash, k)]_vars

\* ------------------------------------------------------------------ C27
\* C27: an add or put of a key that is stored in the low table puts the
\* entry in the high table and takes the one of the low table out: the key
\* is then in the high table only (under the pointer of the call), count()
\* is unchanged, get returns the value of the call, the call returns the
\* pointer that was stored in the low table, and it moves no other entry up
\* and does not expand (the low table has lost one entry, the high table
\* has gained one, the orders are as before).
C27_ReinsertFromLow ==
  [][(ret'.op \in {"add", "put"} /\ failed' = "") =>
       \A k \in Keys :
         (cl_rhash_table_contains(hash.h_lo, k) /\ InsertCalledWith(k)) =>
           /\ ret'.res \in StoredKeys(hash.h_lo)
           /\ SameKey(KeyBytes, ret'.res, k)
           /\ ~cl_rhash_table_contains(hash'.h_lo, k)
           /\ k \in StoredKeys(hash'.h_hi)
           /\ cl_rhash_count(hash') = cl_rhash_count(hash)
           /\ cl_rhash_is_map(hash) =>
                (cl_rhash_get(hash', k) = ghost'[k] /\ ghost'[k] \in Values)
           /\ hash'.h_lo.n_entries = hash.h_lo.n_entries - 1
           /\ hash'.h_hi.n_entries = hash.h_hi.n_entries + 1
           /\ hash'.h_lo.order = hash.h_lo.order
           /\ hash'.h_hi.order = hash.h_hi.order
           /\ ret'.steps = {"evict_lo"}]_vars

\* After a put that found its key in the low table under the other value,
\* with an entry left in the low table.
C27_Witness ==
  /\ cl_rhash_is_map(hash) /\ ret.op = "put" /\ ret.steps = {"evict_lo"}
  /\ ret.res # NULL /\ cl_rhash_get(hash, ret.res) = 2
  /\ hash.h_lo.n_entries > 0 /\ hash.h_hi.n_entries = 1

\* ------------------------------------------------------------------ C28
\* C28: a remove that found its key moves one entry from the high to the
\* low table exactly when, after the key is out, the high table holds an
\* entry and is above the minimum order, however full the tables are; it
\* moves exactly one then and none otherwise, so with the high table at the
\* minimum order nothing is moved to the low table.
C28_MigrateDown ==
  [][(ret'.op = "remove" /\ ret'.res # NULL /\ failed' = "") =>
       LET n_hi == IF ret'.res \in StoredKeys(hash.h_hi)
                   THEN hash.h_hi.n_entries - 1 ELSE hash.h_hi.n_entries
           due == n_hi > 0 /\ hash.h_hi.order > CL_HASH_MIN_ORDER
       IN /\ Cardinality(MovedDown) = IF due THEN 1 ELSE 0
          /\ ("move_lower" \in ret'.steps) <=> due
          /\ hash.h_hi.order = CL_HASH_MIN_ORDER =>
               StoredKeys(hash'.h_lo) \subseteq StoredKeys(hash.h_lo)]_vars

\* After a remove that moved an entry down into a low table that held two
\* or more entries already, from a high table that keeps entries.
C28_Witness ==
  /\ ret.op = "remove" /\ ret.steps = {"move_lower"}
  /\ hash.h_lo.n_entries >= 3 /\ hash.h_hi.n_entries >= 2

\* ------------------------------------------------------------------ C29
\* C29: in every state with the high table below the maximum order, the
\* entries of the high table plus twice the entries of the low table are at
\* most 3/4 of the size of the high table; so the high table is at its
\* expand threshold only with the low table empty, and the low table, which
\* the moves down fill, holds at most 3/4 of its own size.
C29_MigrationPotential ==
  hash.h_hi.order < CL_HASH_MAX_ORDER =>
    /\ hash.h_hi.n_entries + 2 * hash.h_lo.n_entries
         <= cl_rhash_table_limit(hash.h_hi)
    /\ hash.h_hi.n_entries >= cl_rhash_table_limit(hash.h_hi)
         => hash.h_lo.n_entries = 0
    /\ 4 * hash.h_lo.n_entries <= 3 * cl_rhash_table_size(hash.h_lo)

\* After a remove that moved an entry down, both tables hold entries and
\* the sum is at the bound.
C29_Witness ==
  /\ ret.op = "remove" /\ "move_lower" \in ret.steps
  /\ hash.h_hi.order < CL_HASH_MAX_ORDER
  /\ hash.h_hi.n_entries > 0 /\ hash.h_lo.n_entries > 1
  /\ hash.h_hi.n_entries + 2 * hash.h_lo.n_entries
       = cl_rhash_table_limit(hash.h_hi)

\* ------------------------------------------------------------------ C30
\* C30: whenever the high table is at the minimum order (after create,
\* after clear, after a shrink back to the smallest size, and after every
\* call until the next expand) the low table is empty: every entry is in
\* the high table.
C30_LowEmptyAtMinOrder ==
  hash.h_hi.order = CL_HASH_MIN_ORDER =>
    /\ hash.h_lo.n_entries = 0
    /\ Occupied(hash.h_lo) = {}
    /\ cl_rhash_count(hash) = Cardinality(Occupied(hash.h_hi))

\* After a shrink back to the minimum order, a remove found its key in a
\* high table that keeps an entry, and moved nothing down.
C30_Witness ==
  /\ ret.op = "remove" /\ ret.res # NULL /\ ret.steps = {}
  /\ hash.h_hi.order = CL_HASH_MIN_ORDER
  /\ hash.h_lo.order = CL_HASH_MIN_ORDER - 1
  /\ hash.h_hi.n_entries = 1

\* ------------------------------------------------------------------ C31
\* The entries (key and value word) a hash holds in its two tables.
Pairs(h) ==
  {h.h_lo.table[s] : s \in Occupied(h.h_lo)} \cup
  {h.h_hi.table[s] : s \in Occupied(h.h_hi)}

\* The entries a caller of add or put can hand to cl_rhash_insert.
CallEntries ==
  IF cl_rhash_is_map(hash) THEN {<<k, v>> : k \in AllKeys, v \in Values}
  ELSE {<<k, NULL>> : k \in AllKeys}

\* The hash as cl_rhash_check_expand finds it in an insert of a new key.
BeforeExpand(h, ent) ==
  cl_rhash_check_move_higher(
    [h EXCEPT !.h_hi = cl_rhash_table_insert(@, ent).tbl]).hash

\* The hash as cl_rhash_check_shrink finds it in a remove of a stored key.
BeforeShrink(h, key) ==
  LET l == cl_rhash_table_remove(h.h_lo, <<key, NULL>>)
      r == cl_rhash_table_remove(h.h_hi, <<key, NULL>>)
  IN cl_rhash_check_move_lower(
       IF l.key # NULL THEN [h EXCEPT !.h_lo = l.tbl]
       ELSE [h EXCEPT !.h_hi = r.tbl]).hash

\* A table without entries of the given order, its cursor at its size.
FreshTable(tbl, order) ==
  /\ tbl.order = order
  /\ tbl.n_entries = 0
  /\ tbl.n_peek = Pow2(order)
  /\ DOMAIN tbl.table = 0..(Pow2(order) - 1)
  /\ Occupied(tbl) = {}

\* C31: expand and shrink hand a table over without moving an entry.  After
\* an expand the low table is the high table the expand found: same order,
\* entry count, scan cursor and the same entry in every slot; the high table
\* is empty, one order higher, its scan cursor at its size.  After a shrink
\* the high table is the low table the shrink found and the low table is
\* empty and one order lower.  Neither changes the key/value pairs held.
C31_TransferTables ==
  [][failed' = "" =>
       /\ (ret'.op \in {"add", "put"} /\ "expand" \in ret'.steps) =>
            \A ent \in CallEntries :
              \A r \in {cl_rhash_insert(hash, ent)} :
                (r.failed = "" /\ r.hash = hash') =>
                  \A b \in {BeforeExpand(hash, ent)} :
                    /\ hash'.h_lo = b.h_hi
                    /\ FreshTable(hash'.h_hi, b.h_hi.order + 1)
                    /\ Pairs(hash') = Pairs(b)
       /\ (ret'.op = "remove" /\ "shrink" \in ret'.steps) =>
            \A k \in AllKeys :
              RemoveCalledWith(k) =>
                \A b \in {BeforeShrink(hash, k)} :
                  /\ hash'.h_hi = b.h_lo
                  /\ FreshTable(hash'.h_lo, b.h_lo.order - 1)
                  /\ Pairs(hash') = Pairs(b)]_vars

\* Right after a shrink that handed over a table of two mappings whose scan
\* cursor is not at slot 0; the tables had been through an expand before.
C31_Witness ==
  /\ ret.op = "remove" /\ "shrink" \in ret.steps
  /\ cl_rhash_is_map(hash)
  /\ hash.h_hi.n_entries = 2
  /\ hash.h_hi.n_peek > 0

\* ------------------------------------------------------------------ C32
\* The slot at probe distance j from the ideal slot of the entry in slot s.
ProbeSlot(tbl, s, j) ==
  cl_rhash_table_slot(tbl, cl_rhash_table_hash(tbl, tbl.table[s]), j)

\* The probe invariant of one table.
ProbeRuns(tbl) ==
  \A s \in Occupied(tbl) :
    /\ ProbeSlot(tbl, s, cl_rhash_table_cost(tbl, s)) = s
    /\ \A j \in 0..(cl_rhash_table_cost(tbl, s) - 1) :
         /\ ProbeSlot(tbl, s, j) \in Occupied(tbl)
         /\ cl_rhash_table_cost(tbl, ProbeSlot(tbl, s, j)) >= j

\* The lookup of each stored key ends at the slot that holds it.
LookupFindsStored(tbl) ==
  \A s \in Occupied(tbl) : cl_rhash_table_entry(tbl, tbl.table[s]) = s

\* C32: in each table every entry of cost c has the c slots from its ideal
\* slot to its own slot (cyclically) occupied, the resident at probe
\* distance j from that ideal slot having cost at least j; so the lookup,
\* which stops at an empty slot or when the probe length is above the cost
\* of the resident, finds every key stored in the table.
C32_ProbeInvariant ==
  /\ ProbeRuns(hash.h_lo) /\ ProbeRuns(hash.h_hi)
  /\ LookupFindsStored(hash.h_lo) /\ LookupFindsStored(hash.h_hi)

\* A table with a run that wraps around its end: a displaced entry sits in
\* one of the first slots, behind a resident from another ideal slot that
\* is itself displaced.
C32_Witness ==
  \E tbl \in {hash.h_lo, hash.h_hi} :
    \E s \in Occupied(tbl) :
      /\ cl_rhash_table_cost(tbl, s) >= 1
      /\ s < cl_rhash_table_cost(tbl, s)
      /\ \E j \in 0..(cl_rhash_table_cost(tbl, s) - 1) :
           cl_rhash_table_cost(tbl, ProbeSlot(tbl, s, j)) > j

\* ------------------------------------------------------------------ C33
\* The scan cursor of a table is at or before its first entry, and a scan
\* from the cursor finds an entry when the table counts one.
CursorBeforeEntries(tbl) ==
  /\ \A s \in Occupied(tbl) : s >= tbl.n_peek
  /\ tbl.n_entries > 0 => cl_rhash_table_peek(tbl).slot \in Occupied(tbl)

\* C33: in every state no occupied slot of a table lies below the table's
\* scan cursor n_peek, whatever insert, displacement, backward shift, peek,
\* expand, shrink and clear did before; so the scan of peek, which starts at
\* the cursor, finds an entry whenever the table is not empty.
C33_ScanCursor ==
  CursorBeforeEntries(hash.h_lo) /\ CursorBeforeEntries(hash.h_hi)

\* After a peek that found the cursor of the low table, or left it, at the
\* entry it returned, with empty slots before it.
C33_Witness ==
  /\ ret.op = "peek" /\ ret.res # NULL
  /\ hash.h_lo.n_entries > 0 /\ hash.h_lo.n_peek > 0
  /\ hash.h_lo.table[hash.h_lo.n_peek][1] = ret.res

\* ------------------------------------------------ one table, called alone
TableKeys == 1..NTableKeys

\* The entries a caller can hand to a table: a key word, and for a table of
\* two words a value word.
TableEntries(tbl) ==
  IF tbl.n_bytes = 2 THEN {<<k, v>> : k \in TableKeys, v \in Values}
  ELSE {<<k, NULL>> : k \in TableKeys}

table_vars == <<hash, it, ghost, it_keys, it_nulls, it_mut, ret,
                list, lit, l_seen, chash>>

\* cl_rhash_table_insert
TableInsert(ent) ==
  /\ failed = ""
  /\ \E r \in {cl_rhash_table_insert(tab, ent)} :
       IF r.failed # ""
       THEN failed' = r.failed /\ UNCHANGED <<tab, tcall>>
       ELSE /\ tab' = r.tbl
            /\ tcall' = [op |-> "insert", ent |-> ent, before |-> tab,
                         key |-> r.key]
            /\ UNCHANGED failed
  /\ UNCHANGED table_vars

\* cl_rhash_table_remove
TableRemove(ent) ==
  /\ failed = ""
  /\ \E r \in {cl_rhash_table_remove(tab, ent)} :
       /\ tab' = r.tbl
       /\ tcall' = [op |-> "remove", ent |-> ent, before |-> tab,
                    key |-> r.key]
  /\ UNCHANGED <<table_vars, failed>>

\* cl_rhash_table_peek
TablePeek ==
  /\ failed = ""
  /\ \E r \in {cl_rhash_table_peek(tab)} :
       /\ tab' = r.tbl
       /\ tcall' = [op |-> "peek", ent |-> EmptyEntry, before |-> tab,
                    key |-> IF r.slot = -1 THEN NULL
                            ELSE r.tbl.table[r.slot][1]]
  /\ UNCHANGED <<table_vars, failed>>

\* The callers of SpecTable: a table of one word per entry (a set) or two
\* (a map), of the minimum order or the next, string keys; every insert,
\* remove and peek in any order, up to the assert of a full table.
NextTable ==
  \/ \E ent \in TableEntries(tab) : TableInsert(ent)
  \/ \E k \in TableKeys : TableRemove(<<k, NULL>>)
  \/ TablePeek

\* A table of a set or of a map, of the minimum order or the next.
InitTable ==
  /\ HashInit({FALSE}, {0})
  /\ ListInit
  /\ chash = cl_hash_create
  /\ TableInit({1, 2}, {CL_HASH_MIN_ORDER, CL_HASH_MIN_ORDER + 1})

SpecTable == InitTable /\ [][NextTable]_vars

\* ------------------------------------------------------------------ C34
\* The slot an entry probes at probe length j.
EntrySlot(tbl, ent, j) ==
  cl_rhash_table_slot(tbl, cl_rhash_table_hash(tbl, ent), j)

\* The probe lengths at which an insert of ent meets a resident of lower
\* cost, having met before neither an empty slot, nor its key, nor such a
\* resident (one probe length, or none).
Displacing(tbl, ent) ==
  {pr \in 1..(cl_rhash_table_size(tbl) - 1) :
     \A j \in 0..pr :
       LET s == EntrySlot(tbl, ent, j)
       IN /\ s \in Occupied(tbl)
          /\ ~cl_rhash_table_key_equals(tbl, ent, tbl.table[s])
          /\ (cl_rhash_table_cost(tbl, s) < j) <=> (j = pr)}

\* The probe lengths from pr on at which ent meets an empty slot.
EmptyAhead(tbl, ent, pr) ==
  {q \in pr..(cl_rhash_table_size(tbl) - 1) :
     EntrySlot(tbl, ent, q) \notin Occupied(tbl)}

\* C34: when an insert of a new key into a table meets a resident whose
\* cost is below the probe length, each entry from that slot up to the next
\* empty slot (in probe order, around the table end) is one slot further on
\* afterwards, the new entry is in the slot where the resident was, every
\* other slot is as before, the table holds the entries it held and the new
\* one, and its entry count is one higher.
C34_DisplacementInsert ==
  (tcall.op = "insert" /\ Displacing(tcall.before, tcall.ent) # {}) =>
    LET b == tcall.before
        ent == tcall.ent
    IN \A pr \in Displacing(b, ent) :
         /\ EmptyAhead(b, ent, pr) # {}
         /\ \A q \in EmptyAhead(b, ent, pr) :
              (\A p \in EmptyAhead(b, ent, pr) : q <= p) =>
                /\ tab.table[EntrySlot(b, ent, pr)] = ent
                /\ \A j \in pr..(q - 1) :
                     tab.table[EntrySlot(b, ent, j + 1)] =
                       b.table[EntrySlot(b, ent, j)]
                /\ \A s \in DOMAIN b.table :
                     s \notin {EntrySlot(b, ent, j) : j \in pr..q} =>
                       tab.table[s] = b.table[s]
         /\ DOMAIN tab.table = DOMAIN b.table
         /\ {tab.table[s] : s \in Occupied(tab)} =
              {b.table[s] : s \in Occupied(b)} \cup {ent}
         /\ Cardinality(Occupied(tab)) = Cardinality(Occupied(b)) + 1
         /\ tab.n_entries = b.n_entries + 1
         /\ tcall.key = NULL

\* After an insert that displaced a run of two entries or more, which it
\* moved around the end of the table.
C34_Witness ==
  /\ tcall.op = "insert"
  /\ \E pr \in Displacing(tcall.before, tcall.ent) :
       \E q \in EmptyAhead(tcall.before, tcall.ent, pr) :
         /\ q >= pr + 2
         /\ EntrySlot(tab, tcall.ent, q) < EntrySlot(tab, tcall.ent, pr)
         /\ tab.table[EntrySlot(tab, tcall.ent, q)] =
              tcall.before.table[EntrySlot(tab, tcall.ent, q - 1)]

\* ------------------------------------------------------------------ C35
\* The slot j slots after slot s, around the table end.
SlotAfter(tbl, s, j) == (s + j) % cl_rhash_table_size(tbl)

\* The distances from slot s at which the run behind it ends: at an empty
\* slot or at an entry in its ideal slot, and in a full table without such
\* an entry at slot s itself, once around the table.
RunEnds(tbl, s) ==
  {j \in 1..cl_rhash_table_size(tbl) :
     \/ j = cl_rhash_table_size(tbl)
     \/ SlotAfter(tbl, s, j) \notin Occupied(tbl)
     \/ cl_rhash_table_cost(tbl, SlotAfter(tbl, s, j)) = 0}

\* C35: a remove that finds its key moves each entry behind the removed
\* slot back by one slot, up to the first empty slot or the first entry of
\* cost zero (around the table end too), empties the last slot it vacated
\* and leaves every other slot alone; the table then holds the entries it
\* held but the removed one, each at its cost of before or one less, the
\* count is one lower and no probe run has a hole.
C35_BackwardShiftDelete ==
  (tcall.op = "remove" /\ tcall.key # NULL) =>
    LET b == tcall.before
    IN \A r \in {s \in Occupied(b) :
                   cl_rhash_table_key_equals(b, tcall.ent, b.table[s])} :
         /\ tcall.key = b.table[r][1]
         /\ RunEnds(b, r) # {}
         /\ \A e \in RunEnds(b, r) :
              (\A f \in RunEnds(b, r) : e <= f) =>
                /\ \A j \in 0..(e - 2) :
                     tab.table[SlotAfter(b, r, j)] =
                       b.table[SlotAfter(b, r, j + 1)]
                /\ tab.table[SlotAfter(b, r, e - 1)] = EmptyEntry
                /\ \A s \in DOMAIN b.table :
                     s \notin {SlotAfter(b, r, j) : j \in 0..(e - 1)} =>
                       tab.table[s] = b.table[s]
         /\ DOMAIN tab.table = DOMAIN b.table
         /\ {tab.table[s] : s \in Occupied(tab)} =
              {b.table[s] : s \in Occupied(b)} \ {b.table[r]}
         /\ Cardinality(Occupied(tab)) = Cardinality(Occupied(b)) - 1
         /\ tab.n_entries = b.n_entries - 1
         /\ \A t \in Occupied(tab) :
              \E s \in Occupied(b) :
                /\ b.table[s] = tab.table[t]
                /\ cl_rhash_table_cost(b, s) - cl_rhash_table_cost(tab, t)
                     \in {0, 1}
         /\ ProbeRuns(tab)

\* After a remove from slot size - 2 or before that moved two entries back
\* or more, one of them from slot 0 to the last slot of the table.
C35_Witness ==
  /\ tcall.op = "remove" /\ tcall.key # NULL
  /\ \E r \in Occupied(tcall.before) :
       /\ tcall.before.table[r][1] = tcall.key
       /\ \E e \in RunEnds(tcall.before, r) :
            /\ e >= 3
            /\ r + e - 1 >= cl_rhash_table_size(tab) + 1
            /\ \A f \in RunEnds(tcall.before, r) : e <= f
       /\ tab.table[cl_rhash_table_size(tab) - 1] = tcall.before.table[0]

\* ------------------------------------------------------------------ C36
\* The calls that only read the hash.
ReadOps ==
  {"contains", "get", "count", "iterator_create", "iterator_next",
   "iterator_value"}

\* C36: contains, get, count, iterator creation, next() and value() leave
\* the hash as it is: every slot of both tables, both entry counts, both
\* orders, both scan cursors and the edit version.  peek() changes at most
\* the scan cursors: with the cursors of before put back, the hash is the
\* hash of before.
C36_LookupsReadOnly ==
  [][failed' = "" =>
       /\ ret'.op \in ReadOps => hash' = hash
       /\ ret'.op = "peek" =>
            [hash' EXCEPT !.h_lo.n_peek = hash.h_lo.n_peek,
                          !.h_hi.n_peek = hash.h_hi.n_peek] = hash]_vars

\* After next() returned a key of the high table of a map that holds
\* entries in both tables, the scan cursor of the high table not at slot 0.
C36_Witness ==
  /\ ret.op = "iterator_next" /\ ret.res # NULL
  /\ cl_rhash_is_map(hash)
  /\ it.n_table = CL_RHASH_TABLE_HI
  /\ hash.h_lo.n_entries > 0 /\ hash.h_hi.n_peek > 0

\* ------------------------------- the loops of a table, one iteration a step
\* The test of the third branch of cl_rhash_table_insert, taken at equal
\* cost too.
insert_displaces_at_equal(tbl, slot, pr) == pr >= cl_rhash_table_cost(tbl, slot)

\* The test of the third branch of cl_rhash_table_insert.
insert_displaces(tbl, slot, pr) == pr > cl_rhash_table_cost(tbl, slot)

\* The locals of a call on tab: pc is the loop it is in ("done" after its
\* return), pr the probe length of the loop of insert, remove, lookup and
\* peek, ipr the probe length given to the shift, q the probe length of
\* find_empty and of shift_backward, spr the uint32 that shift_forward
\* counts down, p_slot and e_slot the slots p_ent and ent point to, f_slot
\* the slot of the removed entry, n the times the body of the loop ran.
Frame(op, pc, ent) ==
  [op |-> op, pc |-> pc, ent |-> ent, pr |-> 0, ipr |-> 0, q |-> 0,
   spr |-> W32(0), p_slot |-> -1, e_slot |-> -1, f_slot |-> -1, n |-> 0,
   key |-> NULL, before |-> tab]

FrameSlot(pr) ==
  cl_rhash_table_slot(tab, cl_rhash_table_hash(tab, tcall.ent), pr)

\* cl_rhash_table_slot of a probe length that is a uint32
FrameSlot32(spr) ==
  Mask32(Add32(cl_rhash_table_hash(tab, tcall.ent), spr), tab.order)

\* The model follows a loop for twice the table size and no further.
LoopCap == 2 * cl_rhash_table_size(tab)

Return(key) == [tcall EXCEPT !.pc = "done", !.key = key]

\* cl_rhash_table_insert, up to its loop
CallTableInsert(ent) ==
  /\ failed = "" /\ tcall.pc = "done"
  /\ IF ~(tab.n_entries < cl_rhash_table_size(tab))
     THEN /\ failed' = "insert: assert(n_entries < n_size)"
          /\ UNCHANGED <<tab, tcall>>
     ELSE /\ tcall' = Frame("insert", "insert", ent)
          /\ UNCHANGED <<tab, failed>>
  /\ UNCHANGED table_vars

\* one pass of the loop of cl_rhash_table_insert
StepInsert ==
  /\ failed = "" /\ tcall.pc = "insert" /\ tcall.n < LoopCap
  /\ LET pr == tcall.pr
         slot == FrameSlot(pr)
         e == tab.table[slot]
     IN IF pr >= cl_rhash_table_size(tab)
        THEN /\ failed' = "insert: assert(false)"
             /\ UNCHANGED <<tab, tcall>>
        ELSE IF ~cl_rhash_table_entry_exists(e)
        THEN /\ tab' = cl_rhash_table_entry_update(
                         [tab EXCEPT !.table[slot] =
                            cl_rhash_table_entry_copy(tab, @, tcall.ent),
                                     !.n_entries = @ + 1], slot)
             /\ tcall' = [Return(NULL) EXCEPT !.n = @ + 1]
             /\ UNCHANGED failed
        ELSE IF cl_rhash_table_key_equals(tab, tcall.ent, e)
        THEN /\ tab' = cl_rhash_table_entry_update(
                         [tab EXCEPT !.table[slot] =
                            cl_rhash_table_entry_copy(tab, @, tcall.ent)],
                         slot)
             /\ tcall' = [Return(e[1]) EXCEPT !.n = @ + 1]
             /\ UNCHANGED failed
        ELSE IF insert_displaces(tab, slot, pr)
        THEN /\ tcall' = [tcall EXCEPT !.pc = "find_empty", !.ipr = pr,
                                       !.q = pr, !.n = 0]
             /\ UNCHANGED <<tab, failed>>
        ELSE /\ tcall' = [tcall EXCEPT !.pr = pr + 1, !.n = @ + 1]
             /\ UNCHANGED <<tab, failed>>
  /\ UNCHANGED table_vars

\* one pass of the loop of cl_rhash_table_find_empty; its result starts the
\* countdown of cl_rhash_table_shift_forward
StepFindEmpty ==
  /\ failed = "" /\ tcall.pc = "find_empty" /\ tcall.n < LoopCap
  /\ LET q == tcall.q
     IN IF q >= cl_rhash_table_size(tab)
        THEN tcall' = [tcall EXCEPT !.pc = "shift_forward", !.spr = W32(0),
                                   !.p_slot = -1, !.n = 0]
        ELSE IF ~cl_rhash_table_entry_exists(tab.table[FrameSlot(q)])
        THEN tcall' = [tcall EXCEPT !.pc = "shift_forward", !.spr = W32(q),
                                   !.p_slot = -1, !.n = 0]
        ELSE tcall' = [tcall EXCEPT !.q = q + 1, !.n = @ + 1]
  /\ UNCHANGED <<tab, failed, table_vars>>

\* one pass of the loop of cl_rhash_table_shift_forward, whose counter is
\* unsigned: pr >= ipr holds of every pr when ipr is 0.  After its last
\* pass the insert stores the entry and returns.
StepShiftForward ==
  /\ failed = "" /\ tcall.pc = "shift_forward" /\ tcall.n < LoopCap
  /\ IF ~GreaterEq32(tcall.spr, tcall.ipr)
     THEN LET slot == FrameSlot(tcall.ipr)
          IN /\ tab' = cl_rhash_table_entry_update(
                         [tab EXCEPT !.table[slot] =
                            cl_rhash_table_entry_copy(tab, @, tcall.ent),
                                     !.n_entries = @ + 1], slot)
             /\ tcall' = Return(NULL)
     ELSE LET slot == FrameSlot32(tcall.spr)
              t1 == IF tcall.p_slot # -1
                    THEN [tab EXCEPT !.table[tcall.p_slot] =
                            cl_rhash_table_entry_copy(tab, @, tab.table[slot])]
                    ELSE tab
          IN /\ tab' = cl_rhash_table_entry_update(t1, slot)
             /\ tcall' = [tcall EXCEPT !.p_slot = slot,
                                       !.spr = Dec32(tcall.spr), !.n = @ + 1]
  /\ UNCHANGED <<failed, table_vars>>

\* cl_rhash_table_remove, up to its loop
CallTableRemove(ent) ==
  /\ failed = "" /\ tcall.pc = "done"
  /\ tcall' = Frame("remove",
                    IF tab.n_entries = 0 THEN "done" ELSE "remove", ent)
  /\ UNCHANGED <<tab, failed, table_vars>>

\* one pass of the loop of cl_rhash_table_remove
StepRemove ==
  /\ failed = "" /\ tcall.pc = "remove" /\ tcall.n < LoopCap
  /\ LET pr == tcall.pr
         slot == FrameSlot(pr)
         e == tab.table[slot]
     IN IF pr >= cl_rhash_table_size(tab)
        THEN tcall' = Return(NULL) /\ UNCHANGED tab
        ELSE IF ~cl_rhash_table_entry_exists(e)
        THEN tcall' = [Return(NULL) EXCEPT !.n = @ + 1] /\ UNCHANGED tab
        ELSE IF cl_rhash_table_key_equals(tab, tcall.ent, e)
        THEN /\ tab' = [tab EXCEPT !.n_entries = @ - 1]
             /\ tcall' = [tcall EXCEPT !.pc = "shift_backward", !.key = e[1],
                                       !.e_slot = slot, !.f_slot = slot,
                                       !.q = pr + 1, !.n = 0]
        ELSE tcall' = [tcall EXCEPT !.pr = pr + 1, !.n = @ + 1]
             /\ UNCHANGED tab
  /\ UNCHANGED <<failed, table_vars>>

\* one pass of the loop of cl_rhash_table_shift_backward; after its last
\* pass the slot ent points to is zeroed and the remove returns
StepShiftBackward ==
  /\ failed = "" /\ tcall.pc = "shift_backward" /\ tcall.n < LoopCap
  /\ LET q == tcall.q
         slot == FrameSlot(q)
     IN IF \/ q >= cl_rhash_table_size(tab)
           \/ ~cl_rhash_table_entry_exists(tab.table[slot])
           \/ cl_rhash_table_cost(tab, slot) = 0
        THEN /\ tab' = cl_rhash_table_entry_update(
                         [tab EXCEPT !.table[tcall.e_slot] =
                            IF tab.n_bytes = 2 THEN EmptyEntry
                            ELSE <<NULL, @[2]>>],
                         tcall.f_slot)
             /\ tcall' = [Return(tcall.key) EXCEPT
                            !.n = IF q >= cl_rhash_table_size(tab) THEN @
                                  ELSE @ + 1]
        ELSE /\ tab' = [tab EXCEPT !.table[tcall.e_slot] =
                          cl_rhash_table_entry_copy(tab, @, tab.table[slot])]
             /\ tcall' = [tcall EXCEPT !.e_slot = slot, !.q = q + 1,
                                       !.n = @ + 1]
  /\ UNCHANGED <<failed, table_vars>>

\* cl_rhash_table_peek, up to the loop of cl_rhash_table_peek_entry
CallTablePeek ==
  /\ failed = "" /\ tcall.pc = "done"
  /\ tcall' = IF tab.n_entries > 0
              THEN [Frame("peek", "peek", EmptyEntry) EXCEPT !.pr = tab.n_peek]
              ELSE Frame("peek", "done", EmptyEntry)
  /\ UNCHANGED <<tab, failed, table_vars>>

\* one pass of the loop of cl_rhash_table_peek_entry
StepPeek ==
  /\ failed = "" /\ tcall.pc = "peek" /\ tcall.n < LoopCap
  /\ LET pr == tcall.pr
     IN IF pr >= cl_rhash_table_size(tab)
        THEN tcall' = Return(NULL) /\ UNCHANGED tab
        ELSE IF cl_rhash_table_entry_exists(tab.table[pr])
        THEN /\ tab' = [tab EXCEPT !.n_peek = pr]
             /\ tcall' = [Return(tab.table[pr][1]) EXCEPT !.n = @ + 1]
        ELSE tcall' = [tcall EXCEPT !.pr = pr + 1, !.n = @ + 1]
             /\ UNCHANGED tab
  /\ UNCHANGED <<failed, table_vars>>

\* cl_rhash_table_entry, up to its loop
CallTableEntry(ent) ==
  /\ failed = "" /\ tcall.pc = "done"
  /\ tcall' = Frame("entry", "entry", ent)
  /\ UNCHANGED <<tab, failed, table_vars>>

\* one pass of the loop of cl_rhash_table_entry
StepEntry ==
  /\ failed = "" /\ tcall.pc = "entry" /\ tcall.n < LoopCap
  /\ LET pr == tcall.pr
         slot == FrameSlot(pr)
         e == tab.table[slot]
     IN IF pr >= cl_rhash_table_size(tab) THEN tcall' = Return(NULL)
        ELSE IF ~cl_rhash_table_entry_exists(e)
        THEN tcall' = [Return(NULL) EXCEPT !.n = @ + 1]
        ELSE IF cl_rhash_table_key_equals(tab, tcall.ent, e)
        THEN tcall' = [Return(e[1]) EXCEPT !.n = @ + 1]
        ELSE IF pr > cl_rhash_table_cost(tab, slot)
        THEN tcall' = [Return(NULL) EXCEPT !.n = @ + 1]
        ELSE tcall' = [tcall EXCEPT !.pr = pr + 1, !.n = @ + 1]
  /\ UNCHANGED <<tab, failed, table_vars>>

\* The next pass of the loop the call is in.
StepLoops ==
  \/ StepInsert
  \/ StepFindEmpty
  \/ StepShiftForward
  \/ StepRemove
  \/ StepShiftBackward
  \/ StepPeek
  \/ StepEntry

\* The callers of SpecLoops: a table of a set, of the minimum order or the
\* next, string keys; a call begins when the call before has returned, and
\* a call that has begun runs on (rhash.c has one thread of control).
NextLoops ==
  \/ \E ent \in TableEntries(tab) : CallTableInsert(ent)
  \/ \E k \in TableKeys : CallTableRemove(<<k, NULL>>)
  \/ CallTablePeek
  \/ \E k \in TableKeys : CallTableEntry(<<k, NULL>>)
  \/ StepLoops

InitLoops ==
  /\ HashInit({FALSE}, {0})
  /\ ListInit
  /\ chash = cl_hash_create
  /\ TableInit({1}, {CL_HASH_MIN_ORDER, CL_HASH_MIN_ORDER + 1})

SpecLoops == InitLoops /\ [][NextLoops]_vars /\ WF_vars(StepLoops)

\* Each call, run pass by pass, returns what the call computed at once
\* returns, and leaves the table that call leaves.
StepsAgree ==
  (tcall.pc = "done" /\ tcall.op # "none") =>
    LET b == tcall.before
    IN CASE tcall.op = "insert" ->
              /\ tab = cl_rhash_table_insert(b, tcall.ent).tbl
              /\ tcall.key = cl_rhash_table_insert(b, tcall.ent).key
         [] tcall.op = "remove" ->
              /\ tab = cl_rhash_table_remove(b, tcall.ent).tbl
              /\ tcall.key = cl_rhash_table_remove(b, tcall.ent).key
         [] tcall.op = "peek" ->
              /\ tab = cl_rhash_table_peek(b).tbl
              /\ (tcall.key = NULL) <=> (cl_rhash_table_peek(b).slot = -1)
         [] tcall.op = "entry" ->
              /\ tab = b
              /\ (tcall.key = NULL) <=> (cl_rhash_table_entry(b, tcall.ent) = -1)

\* C37: every loop of a table call ends.  No loop runs its body more often
\* than the table has slots; a forward shift is entered with a probe length
\* of at least 1, so its unsigned countdown passes below it, and starts at
\* an empty slot not before it; and every call that has begun returns or
\* stops at a failed assert.
C37_LoopBounds ==
  tcall.op # "none" =>
    /\ tcall.n <= cl_rhash_table_size(tab)
    /\ tcall.pr <= cl_rhash_table_size(tab)
    /\ tcall.q <= cl_rhash_table_size(tab)
    /\ tcall.pc = "shift_forward" =>
         /\ tcall.ipr >= 1
         /\ tcall.n = 0 =>
              /\ GreaterEq32(tcall.spr, tcall.ipr)
              /\ ~cl_rhash_table_entry_exists(
                    tab.table[FrameSlot32(tcall.spr)])

C37_LoopsTerminate ==
  /\ []C37_LoopBounds
  /\ (tcall.pc # "done") ~> (tcall.pc = "done" \/ failed # "")

\* An insert has returned after a forward shift of two passes or more.
C37_Witness ==
  /\ tcall.pc = "done" /\ tcall.op = "insert" /\ failed = ""
  /\ tcall.ipr >= 1 /\ tcall.p_slot # -1 /\ tcall.n >= 2

\* ------------------------------------------------------- list.c: removal
\* The loop of cl_list_remove, without the repair of tail when the last
\* node is unlinked.
RECURSIVE cl_list_remove_loop_keeps_tail(_, _, _, _)
cl_list_remove_loop_keeps_tail(l, n, p, item) ==
  IF n = NULL THEN [list |-> l, item |-> NULL]
  ELSE IF l.node[n].item = item
  THEN LET nx == l.node[n].next
           l1 == IF p = NULL THEN [l EXCEPT !.head = nx]
                 ELSE [l EXCEPT !.node[p].next = nx]
       IN [list |-> [l1 EXCEPT !.n_entries = @ - 1, !.node[n] = FreeNode],
           item |-> item]
  ELSE cl_list_remove_loop_keeps_tail(l, l.node[n].next, n, item)

\* The loop of cl_list_remove from node n on, p the node before it (pp is
\* &list->head while p is NULL, &p->next after).  What a released block
\* holds is the pool's.
RECURSIVE cl_list_remove_loop(_, _, _, _)
cl_list_remove_loop(l, n, p, item) ==
  IF n = NULL THEN [list |-> l, item |-> NULL]
  ELSE IF l.node[n].item = item
  THEN LET nx == l.node[n].next
           l1 == IF p = NULL THEN [l EXCEPT !.head = nx]
                 ELSE [l EXCEPT !.node[p].next = nx]
           l2 == IF nx = NULL THEN [l1 EXCEPT !.tail = p] ELSE l1
       IN [list |-> [l2 EXCEPT !.n_entries = @ - 1, !.node[n] = FreeNode],
           item |-> item]
  ELSE cl_list_remove_loop(l, l.node[n].next, n, item)

\* The result: the list and the removed item (or NULL).
cl_list_remove(l, item) == cl_list_remove_loop(l, l.head, NULL, item)

\* cl_pool_clear takes every block back.
cl_list_clear(l) ==
  [l EXCEPT !.head = NULL, !.tail = NULL, !.n_entries = 0,
            !.node = [n \in Nodes |-> FreeNode]]

\* A cl_list_iterator_remove that leaves the lowest bit of prev alone.
cl_list_iterator_remove_no_mark(l, i) ==
  LET p == cl_list_iterator_prev(i)
      curr == cl_list_iterator_curr(l, i)
      l1 == IF p # NULL
            THEN [l EXCEPT !.node[p].next =
                    IF curr # NULL THEN l.node[curr].next ELSE NULL]
            ELSE IF curr # NULL THEN [l EXCEPT !.head = l.node[curr].next]
            ELSE l
      i1 == IF p # NULL THEN i
            ELSE IF curr # NULL THEN [i EXCEPT !.ptr = NULL, !.bit = 0]
            ELSE i
  IN [list |-> IF curr # NULL
               THEN [l1 EXCEPT !.tail = IF l.node[curr].next = NULL THEN p
                                        ELSE @,
                               !.n_entries = @ - 1,
                               !.node[curr] = FreeNode]
               ELSE l1,
      it |-> i1]

\* The result: the list and the iterator.
cl_list_iterator_remove(l, i) ==
  LET p == cl_list_iterator_prev(i)
      curr == cl_list_iterator_curr(l, i)
      l1 == IF p # NULL
            THEN [l EXCEPT !.node[p].next =
                    IF curr # NULL THEN l.node[curr].next ELSE NULL]
            ELSE IF curr # NULL THEN [l EXCEPT !.head = l.node[curr].next]
            ELSE l
      i1 == IF p # NULL THEN [i EXCEPT !.bit = 1]
            ELSE IF curr # NULL THEN [i EXCEPT !.ptr = NULL, !.bit = 0]
            ELSE i
  IN [list |-> IF curr # NULL
               THEN [l1 EXCEPT !.tail = IF l.node[curr].next = NULL THEN p
                                        ELSE @,
                               !.n_entries = @ - 1,
                               !.node[curr] = FreeNode]
               ELSE l1,
      it |-> i1]

\* The node prev points to is NULL or a node of the list: a call on the
\* iterator reads no block the pool took back.
ListIterUsable ==
  /\ lit.state = "live"
  /\ lit.ptr # NULL => list.node[lit.ptr].used

\* cl_list_add, under an iterator or not
EditAdd(item) ==
  /\ failed = ""
  /\ \E n \in FreeNodes(list) : list' = cl_list_add(list, n, item)
  /\ ret' = Call("list_add", item, FALSE, {})
  /\ UNCHANGED <<rhash_vars, chash, failed, lit, l_seen>>

\* cl_list_add_tail, under an iterator or not
EditAddTail(item) ==
  /\ failed = ""
  /\ \E n \in FreeNodes(list) : list' = cl_list_add_tail(list, n, item)
  /\ ret' = Call("list_add_tail", item, FALSE, {})
  /\ UNCHANGED <<rhash_vars, chash, failed, lit, l_seen>>

\* cl_list_pop, under an iterator or not
EditPop ==
  /\ failed = ""
  /\ \E r \in {cl_list_pop(list)} :
       /\ list' = r.list
       /\ ret' = Call("list_pop", r.item, FALSE, {})
  /\ UNCHANGED <<rhash_vars, chash, failed, lit, l_seen>>

\* cl_list_remove, under an iterator or not
ListRemove(item) ==
  /\ failed = ""
  /\ \E r \in {cl_list_remove(list, item)} :
       /\ list' = r.list
       /\ ret' = Call("list_remove", r.item, FALSE, {})
  /\ UNCHANGED <<rhash_vars, chash, failed, lit, l_seen>>

\* cl_list_clear; the block of a live iterator would go back to the pool
\* with the nodes, so the callers clear while they hold none
ListClear ==
  /\ failed = "" /\ lit.state = "none"
  /\ list' = cl_list_clear(list)
  /\ ret' = Call("list_clear", NoResult, FALSE, {})
  /\ UNCHANGED <<rhash_vars, chash, failed, lit, l_seen>>

\* cl_list_iterator_remove; present: the call before was a
\* cl_list_iterator_next that returned an item
ListIterRemove ==
  /\ failed = "" /\ ListIterUsable
  /\ \E r \in {cl_list_iterator_remove(list, lit)} :
       /\ list' = r.list
       /\ lit' = r.it
       /\ ret' = Call("list_iterator_remove", NoResult,
                      ret.op = "list_iterator_next" /\ ret.res # NULL, {})
  /\ UNCHANGED <<rhash_vars, chash, failed, l_seen>>

\* cl_list_iterator_next
EditIterNext ==
  /\ failed = "" /\ ListIterUsable
  /\ \E r \in {cl_list_iterator_next(list, lit)} :
       /\ lit' = r.it
       /\ ret' = Call("list_iterator_next", r.item, FALSE, {})
  /\ UNCHANGED <<rhash_vars, chash, failed, list, l_seen>>

\* The callers of SpecEdit: they change the list at any time, also under
\* an iterator, and call the iterator while the node it points to is in
\* the list.
NextEdit ==
  \/ \E item \in Items : EditAdd(item)
  \/ \E item \in Items : EditAddTail(item)
  \/ EditPop
  \/ \E item \in Items : ListRemove(item)
  \/ ListClear
  \/ ListIterCreate
  \/ EditIterNext
  \/ ListIterRemove
  \/ ListIterDestroy

SpecEdit == InitWith({FALSE}, {0}) /\ [][NextEdit]_vars

\* The nodes from node n on, at most k of them.
RECURSIVE NodeWalk(_, _, _)
NodeWalk(l, n, k) ==
  IF n = NULL \/ k = 0 THEN <<>>
  ELSE <<n>> \o NodeWalk(l, l.node[n].next, k - 1)

\* The nodes of the list from the head to the tail.
ListNodes(l) == NodeWalk(l, l.head, MaxNodes + 1)

C39_RemoveWhileIterating ==
  [][(/\ ret.op = "list_iterator_next" /\ ret.res # NULL
      /\ ret'.op = "list_iterator_remove") =>
       LET ns == ListNodes(list)
           its == ListItems(list)
           c == cl_list_iterator_curr(list, lit)
       IN \E k \in 1..Len(ns) :
            /\ ns[k] = c
            /\ its[k] = ret.res
            /\ ListItems(list') =
                 SubSeq(its, 1, k - 1) \o SubSeq(its, k + 1, Len(its))
            /\ ListNodes(list') =
                 SubSeq(ns, 1, k - 1) \o SubSeq(ns, k + 1, Len(ns))
            /\ cl_list_count(list') = cl_list_count(list) - 1
            /\ cl_list_iterator_next(list', lit').item =
                 IF k < Len(its) THEN its[k + 1] ELSE NULL]_vars

\* The iterator has removed the item it had just returned, the second of
\* three: the node before it and the node after it are the list.
C39_Witness ==
  /\ ret.op = "list_iterator_remove" /\ ret.present
  /\ lit.ptr # NULL /\ lit.bit = 1
  /\ list.head = lit.ptr
  /\ list.node[lit.ptr].next # NULL
  /\ list.node[lit.ptr].next = list.tail

====
